---- MODULE Spec2Model ----
(***************************************************************************)
(* swift3 middleware (src/swift3/middleware.py): the S3-on-Swift protocol  *)
(* translation layer.  Text is modelled by TLA+ strings, taken apart with  *)
(* Len, SubSeq and \o, so that splitting, lower-casing, sorting, quoting   *)
(* and query parsing are computed character by character as the Python    *)
(* code computes them.                                                     *)
(***************************************************************************)
EXTENDS Integers, Sequences, FiniteSets, TLC

None == "<None>"

-----------------------------------------------------------------------------
(* Python string primitives used by the middleware.                        *)

\* The characters of the model, in ascending ASCII order.
Ascii ==
    "\n %&()*+,-./0123456789:;<=>?@ABCDEFGHIJKLMNOPQRSTUVWXYZ_abcdefghijklmnopqrstuvwxyz"
Uppers == "ABCDEFGHIJKLMNOPQRSTUVWXYZ"
Lowers == "abcdefghijklmnopqrstuvwxyz"
Digits == "0123456789"

At(s, i) == SubSeq(s, i, i)

CharSet(s) == {At(s, i) : i \in 1..Len(s)}

IndexIn(s, c) == CHOOSE i \in 1..Len(s) : At(s, i) = c

Ord == [c \in CharSet(Ascii) |-> IndexIn(Ascii, c)]

\* str.lower() on one character.
LowerChar ==
    [c \in CharSet(Ascii) |->
        IF c \in CharSet(Uppers) THEN At(Lowers, IndexIn(Uppers, c)) ELSE c]

UpperChar ==
    [c \in CharSet(Ascii) |->
        IF c \in CharSet(Lowers) THEN At(Uppers, IndexIn(Lowers, c)) ELSE c]

RECURSIVE lower(_)
lower(s) == IF s = "" THEN "" ELSE LowerChar[Head(s)] \o lower(Tail(s))

RECURSIVE upper(_)
upper(s) == IF s = "" THEN "" ELSE UpperChar[Head(s)] \o upper(Tail(s))

\* Python's < on byte strings: lexicographic by character code, a proper
\* prefix first.
RECURSIVE StrLess(_, _)
StrLess(a, b) ==
    IF b = "" THEN FALSE
    ELSE IF a = "" THEN TRUE
    ELSE IF Head(a) = Head(b) THEN StrLess(Tail(a), Tail(b))
    ELSE Ord[Head(a)] < Ord[Head(b)]

startswith(s, p) == Len(s) >= Len(p) /\ SubSeq(s, 1, Len(p)) = p

\* c in s, for a one-character c.
HasChar(s, c) == \E i \in 1..Len(s) : At(s, i) = c

\* sub in s, for any substring.
Contains(s, sub) ==
    \E i \in 1..(Len(s) - Len(sub) + 1) : SubSeq(s, i, i + Len(sub) - 1) = sub

\* s.find(c) for a one-character c, 1-based; 0 when absent.
find(s, c) ==
    IF HasChar(s, c) THEN CHOOSE i \in 1..Len(s) :
                              At(s, i) = c /\ \A j \in 1..(i - 1) : At(s, j) # c
    ELSE 0

\* s.rfind(c), 1-based; 0 when absent.
rfind(s, c) ==
    IF HasChar(s, c) THEN CHOOSE i \in 1..Len(s) :
                              At(s, i) = c /\ \A j \in (i + 1)..Len(s) : At(s, j) # c
    ELSE 0

\* s.split(sep, maxsplit): at most maxsplit cuts, from the left; maxsplit < 0
\* means no limit.
RECURSIVE splitN(_, _, _)
splitN(s, sep, maxsplit) ==
    LET i == find(s, sep) IN
    IF i = 0 \/ maxsplit = 0 THEN <<s>>
    ELSE <<SubSeq(s, 1, i - 1)>>
             \o splitN(SubSeq(s, i + 1, Len(s)), sep, maxsplit - 1)

split(s, sep) == splitN(s, sep, -1)

\* The split at the first separator instead of the last.
split1(s, sep) == splitN(s, sep, 1)

\* s.rsplit(sep, 1)
rsplit1(s, sep) ==
    LET i == rfind(s, sep) IN
    IF i = 0 THEN <<s>>
    ELSE <<SubSeq(s, 1, i - 1), SubSeq(s, i + 1, Len(s))>>

\* sep.join(parts)
RECURSIVE join(_, _)
join(sep, parts) ==
    IF parts = <<>> THEN ""
    ELSE IF Len(parts) = 1 THEN parts[1]
    ELSE parts[1] \o sep \o join(sep, Tail(parts))

\* str.isdigit(): non-empty and every character a decimal digit.
isdigit(s) == s # "" /\ \A i \in 1..Len(s) : At(s, i) \in CharSet(Digits)

\* int(s) for a string of decimal digits.
RECURSIVE int(_)
int(s) ==
    IF s = "" THEN 0
    ELSE 10 * int(SubSeq(s, 1, Len(s) - 1)) + (IndexIn(Digits, At(s, Len(s))) - 1)

\* '%s' % n for a natural number n.
RECURSIVE str(_)
str(n) ==
    IF n < 10 THEN At(Digits, n + 1)
    ELSE str(n \div 10) \o At(Digits, (n % 10) + 1)

\* sorted(list of strings): insertion sort, ascending, duplicates kept.
RECURSIVE Insert(_, _)
Insert(x, sortedSeq) ==
    IF sortedSeq = <<>> THEN <<x>>
    ELSE IF StrLess(sortedSeq[1], x) THEN <<sortedSeq[1]>> \o Insert(x, Tail(sortedSeq))
    ELSE <<x>> \o sortedSeq

RECURSIVE sorted(_)
sorted(xs) == IF xs = <<>> THEN <<>> ELSE Insert(xs[1], sorted(Tail(xs)))

\* urllib.quote(s, safe): letters, digits and "_.-" are always kept, the
\* characters of safe are kept, every other character becomes %XX.
AlwaysSafe == Uppers \o Lowers \o Digits \o "_.-"
Escaped == "\n %&()*+,/:;<=>?@"
Hex == <<"0A", "20", "25", "26", "28", "29", "2A", "2B", "2C", "2F", "3A", "3B",
         "3C", "3D", "3E", "3F", "40">>

RECURSIVE quote(_, _)
quote(s, safe) ==
    IF s = "" THEN ""
    ELSE LET c == Head(s) IN
         (IF HasChar(AlwaysSafe, c) \/ HasChar(safe, c) THEN c
          ELSE "%" \o Hex[IndexIn(Escaped, c)]) \o quote(Tail(s), safe)

\* urllib.unquote(s): every %XX that is a valid escape is decoded, anything
\* else is left as it is.
RECURSIVE unquote(_)
unquote(s) ==
    IF s = "" THEN ""
    ELSE IF Head(s) = "%" /\ Len(s) >= 3
             /\ \E k \in 1..Len(Hex) : Hex[k] = SubSeq(s, 2, 3)
         THEN At(Escaped, CHOOSE k \in 1..Len(Hex) : Hex[k] = SubSeq(s, 2, 3))
                  \o unquote(SubSeq(s, 4, Len(s)))
    ELSE Head(s) \o unquote(Tail(s))

\* s.replace(old, new) for one-character old.
RECURSIVE replace(_, _, _)
replace(s, old, new) ==
    IF s = "" THEN ""
    ELSE (IF Head(s) = old THEN new ELSE Head(s)) \o replace(Tail(s), old, new)

\* xml.sax.saxutils.escape
xml_escape(s) == replace(replace(replace(s, "&", "&amp;"), "<", "&lt;"), ">", "&gt;")

\* urlparse.parse_qsl(qs, keep_blank_values=True): the fields between '&',
\* empty fields skipped, each cut at its first '=', a field without '='
\* getting the value '', '+' read as a space, names and values unquoted.  A
\* sequence of <<name, value>> pairs in the order of the query string.
RECURSIVE ParseFields(_)
ParseFields(fields) ==
    IF fields = <<>> THEN <<>>
    ELSE LET nv == splitN(fields[1], "=", 1)
             name == unquote(replace(nv[1], "+", " "))
             value == IF Len(nv) = 2 THEN unquote(replace(nv[2], "+", " ")) ELSE ""
         IN  (IF fields[1] = "" THEN <<>> ELSE << <<name, value>> >>)
                 \o ParseFields(Tail(fields))

parse_qsl(qs) == ParseFields(split(qs, "&"))

\* dict(pairs): key in d, and d[key] (the last pair of that key wins).
HasKey(pairs, key) == \E i \in 1..Len(pairs) : pairs[i][1] = key

GetKey(pairs, key) ==
    pairs[CHOOSE i \in 1..Len(pairs) :
              pairs[i][1] = key /\ \A j \in (i + 1)..Len(pairs) : pairs[j][1] # key][2]

GetKeyOr(pairs, key, default) ==
    IF HasKey(pairs, key) THEN GetKey(pairs, key) ELSE default

Min(a, b) == IF a < b THEN a ELSE b

\* Header maps (WSGI environ HTTP_* keys, req.headers): a sequence of
\* <<name, value>> pairs, at most one per name whatever its letter case,
\* looked up case-insensitively.
HasHeader(headers, name) ==
    \E key \in {lower(name)} : \E i \in 1..Len(headers) : lower(headers[i][1]) = key

GetHeader(headers, name) ==
    LET key == lower(name) IN
    headers[CHOOSE i \in 1..Len(headers) : lower(headers[i][1]) = key][2]

GetHeaderOr(headers, name, default) ==
    LET key == lower(name)
        found == {i \in 1..Len(headers) : lower(headers[i][1]) = key}
    IN  IF found # {} THEN headers[CHOOSE i \in found : TRUE][2] ELSE default

\* headers[name] = value: the pair of that name replaced in place, or a new
\* pair added.
SetHeader(headers, name, value) ==
    IF HasHeader(headers, name)
    THEN [i \in 1..Len(headers) |->
             IF lower(headers[i][1]) = lower(name) THEN <<headers[i][1], value>>
             ELSE headers[i]]
    ELSE Append(headers, <<name, value>>)

\* del headers[name]
RECURSIVE DelHeader(_, _)
DelHeader(headers, name) ==
    IF headers = <<>> THEN <<>>
    ELSE (IF lower(headers[1][1]) = lower(name) THEN <<>> ELSE <<headers[1]>>)
             \o DelHeader(Tail(headers), name)

-----------------------------------------------------------------------------
(* State.                                                                  *)

VARIABLES
    pc,        \* "idle", "accepted", "routed", "backend", "done"; "new", "canon" (SpecCanon)
    inbound,   \* the WSGI environ as the request arrived
    env,       \* the WSGI environ, as the handlers rewrite it
    now,       \* datetime.utcnow(), in seconds since 1970-01-01
    ctl,       \* the controller and what its handler keeps across the backend call
    calls,     \* the environs the downstream application was called with
    answer,    \* what the downstream application answered to the last call
    resp,      \* the response of __call__
    canon,     \* canonical strings: of the request as first seen, and now
    parsed     \* what parse_access_control_policy read from a document (SpecAcl)

vars == <<pc, inbound, env, now, ctl, calls, answer, resp, canon, parsed>>

\* webob/swob Request.path_qs: the quoted PATH_INFO, then '?' and the query
\* string when there is one.
path_qs(e) ==
    quote(e.PATH_INFO, "/")
        \o (IF e.QUERY_STRING # "" THEN "?" \o e.QUERY_STRING ELSE "")

\* The lowercased x-amz-* header names, in the order of the header map.
RECURSIVE AmzKeys(_)
AmzKeys(headers) ==
    IF headers = <<>> THEN <<>>
    ELSE (IF startswith(lower(headers[1][1]), "x-amz-")
          THEN <<lower(headers[1][1])>> ELSE <<>>) \o AmzKeys(Tail(headers))

\* The keys of a dict filled from a list: each key once.
RECURSIVE Uniq(_)
Uniq(xs) ==
    IF Len(xs) < 2 THEN xs
    ELSE IF xs[1] = xs[2] THEN Uniq(Tail(xs))
    ELSE <<xs[1]>> \o Uniq(Tail(xs))

\* The keys of amz_headers, the dict filled from the sorted lowercased
\* x-amz-* names, as sorted again for the output loop.
AmzHeaderKeysUnsorted(headers) == AmzKeys(headers)

AmzHeaderKeys(headers) == sorted(Uniq(sorted(AmzKeys(headers))))

\* The "key:value\n" lines of the x-amz-* headers.
RECURSIVE AmzLines(_, _)
AmzLines(keys, headers) ==
    IF keys = <<>> THEN ""
    ELSE keys[1] \o ":" \o GetHeader(headers, keys[1]) \o "\n"
             \o AmzLines(Tail(keys), headers)

SubResources ==
    {"acl", "location", "logging", "requestPayment", "torrent", "versionId",
     "versioning", "versions"}

\* The sub-resource parameters of the query, as 'key=value' or 'key'.
RECURSIVE CanonParams(_)
CanonParams(pairs) ==
    IF pairs = <<>> THEN <<>>
    ELSE (IF pairs[1][1] \in SubResources
          THEN <<IF pairs[1][2] # "" THEN pairs[1][1] \o "=" \o pairs[1][2]
                 ELSE pairs[1][1]>>
          ELSE <<>>) \o CanonParams(Tail(pairs))

\* canonical_string(req)
canonical_string(e) ==
    LET headers == e.headers
        ctype == GetHeaderOr(headers, "Content-Type", "")
        buf0 == e.REQUEST_METHOD \o "\n"
                    \o GetHeaderOr(headers, "Content-MD5", "") \o "\n"
                    \o ctype \o "\n"
        amz_headers == AmzHeaderKeys(headers)
        buf1 == IF \E i \in 1..Len(amz_headers) : amz_headers[i] = "x-amz-date"
                THEN buf0 \o "\n"
                ELSE IF HasHeader(headers, "Date")
                THEN buf0 \o GetHeader(headers, "Date") \o "\n"
                ELSE buf0
        buf == buf1 \o AmzLines(amz_headers, headers)
        pq == path_qs(e)
        cut == IF HasChar(pq, "?") THEN splitN(pq, "?", 1) ELSE <<pq, "">>
        segs == split(cut[1], "/")
        path == IF Len(segs) > 2 /\ segs[3] # ""
                THEN join("/", SubSeq(segs, 1, 2)
                         \o <<quote(unquote(join("/", SubSeq(segs, 3, Len(segs)))), "")>>)
                ELSE cut[1]
        params == CanonParams(parse_qsl(cut[2]))
    IN  IF params # <<>> THEN buf \o path \o "?" \o join("&", params)
        ELSE buf \o path

-----------------------------------------------------------------------------
(* Responses.                                                              *)

error_table ==
    [AccessDenied |-> 403, BucketAlreadyExists |-> 409, BucketNotEmpty |-> 409,
     InvalidArgument |-> 400, InvalidBucketName |-> 400, InvalidURI |-> 400,
     InvalidDigest |-> 400, BadDigest |-> 400, NoSuchBucket |-> 404,
     SignatureDoesNotMatch |-> 403, RequestTimeTooSkewed |-> 403,
     NoSuchKey |-> 404, Unsupported |-> 501, MissingContentLength |-> 411,
     IllegalVersioningConfigurationException |-> 400, MalformedACLError |-> 400]

NoDoc == [tag |-> "none"]

\* get_err_response(code): the error document of a code of the table.
get_err_response(code) ==
    [kind |-> "error", code |-> code, status |-> error_table[code],
     content_type |-> "text/xml", headers |-> <<>>, doc |-> NoDoc]

\* Response(body=..., content_type=...): status 200 unless given.
Response(status, content_type, headers, doc) ==
    [kind |-> "success", code |-> "", status |-> status,
     content_type |-> content_type, headers |-> headers, doc |-> doc]

\* What the downstream application answered, handed on as it is.
Downstream(reply) ==
    [kind |-> "downstream", code |-> "", status |-> reply.status,
     content_type |-> "", headers |-> reply.headers, doc |-> NoDoc]

\* __call__ caught an exception, logged it and returned nothing.
NoResponse ==
    [kind |-> "none", code |-> "", status |-> 0, content_type |-> "",
     headers |-> <<>>, doc |-> NoDoc]

Pending ==
    [kind |-> "pending", code |-> "", status |-> 0, content_type |-> "",
     headers |-> <<>>, doc |-> NoDoc]

-----------------------------------------------------------------------------
(* Swift3Middleware.handle_request, up to the controller's handler.        *)

\* swift.common.utils.split_path(path, 0, 2, True): <<container, object>>,
\* None for a segment the path does not have; <<"ValueError">> when the path
\* does not start with '/'.
split_path(path) ==
    LET segs == splitN(path, "/", 2) IN
    IF segs[1] # "" THEN <<"ValueError">>
    ELSE <<IF Len(segs) >= 2 THEN segs[2] ELSE None,
           IF Len(segs) >= 3 THEN segs[3] ELSE None>>

Truthy(v) == v # None /\ v # ""

\* get_controller with its first two branches in the other order.
get_controller_bucket_first(path) ==
    LET parts == split_path(path) IN
    IF parts = <<"ValueError">> THEN [controller |-> "ValueError"]
    ELSE [controller |-> IF Truthy(parts[1]) THEN "Bucket"
                         ELSE IF Truthy(parts[1]) /\ Truthy(parts[2]) THEN "Object"
                         ELSE "Service",
          container_name |-> parts[1], object_name |-> parts[2]]

\* get_controller(path): the controller class and the path parts.
get_controller(path) ==
    LET parts == split_path(path) IN
    IF parts = <<"ValueError">> THEN [controller |-> "ValueError"]
    ELSE [controller |-> IF Truthy(parts[1]) /\ Truthy(parts[2]) THEN "Object"
                         ELSE IF Truthy(parts[1]) THEN "Bucket"
                         ELSE "Service",
          container_name |-> parts[1], object_name |-> parts[2]]

\* The methods each controller class defines.
Methods(controller) ==
    CASE controller = "Service" -> {"GET"}
      [] controller = "Bucket" -> {"GET", "PUT", "DELETE", "POST"}
      [] controller = "Object" -> {"GETorHEAD", "HEAD", "GET", "PUT", "DELETE"}

\* email.utils.parsedate followed by datetime(*date[0:6]) - epoch, on the
\* date texts of the model.  A date text is '@' and the second since
\* 1970-01-01 00:00:00 that its date and time-of-day fields name (before it
\* with a '-'); then nothing, for the zone GMT, or a space and the zone as
\* '+h' or '-h' hours, or a space and 'Feb30' for fields that name no day of
\* the calendar.  parsedate reads the fields and drops the zone; it gives None
\* (ok is FALSE) for any other text.  datetime() raises ValueError for fields
\* that name no day (valid is FALSE).
parsedate(text) ==
    LET parts == split(text, " ")
        stamp == parts[1]
        digits == IF startswith(stamp, "@-") THEN SubSeq(stamp, 3, Len(stamp))
                  ELSE SubSeq(stamp, 2, Len(stamp))
        zoned == /\ Len(parts) = 2
                 /\ Len(parts[2]) = 2
                 /\ At(parts[2], 1) \in {"+", "-"}
                 /\ isdigit(SubSeq(parts[2], 2, 2))
        noday == Len(parts) = 2 /\ parts[2] = "Feb30"
    IN  IF startswith(stamp, "@") /\ isdigit(digits)
               /\ (Len(parts) = 1 \/ zoned \/ noday)
        THEN [ok |-> TRUE, valid |-> ~noday,
              secs |-> IF startswith(stamp, "@-") THEN 0 - int(digits) ELSE int(digits)]
        ELSE [ok |-> FALSE, valid |-> FALSE, secs |-> 0]

\* timedelta(seconds=60 * 10)
delta == 60 * 10

\* base64.urlsafe_b64encode(text): a one-to-one encoding, kept symbolic.
urlsafe_b64encode(text) == "b64(" \o text \o ")"

\* The synthesis of Date and Authorization from a presigned query, lines
\* 1090-1096: the environ after it, and whether a KeyError ended it.
Presign(e) ==
    LET params == parse_qsl(e.QUERY_STRING) IN
    IF ~HasKey(params, "AWSAccessKeyId") THEN [env |-> e, failed |-> FALSE]
    ELSE IF ~HasKey(params, "Expires") THEN [env |-> e, failed |-> TRUE]
    ELSE LET e1 == [e EXCEPT !.headers =
                        SetHeader(@, "Date", GetKey(params, "Expires"))] IN
         IF ~HasKey(params, "Signature") THEN [env |-> e1, failed |-> TRUE]
         ELSE [env |-> [e1 EXCEPT !.headers =
                           SetHeader(@, "Authorization",
                                     "AWS " \o GetKey(params, "AWSAccessKeyId")
                                         \o ":" \o GetKey(params, "Signature"))],
               failed |-> FALSE]

\* d1 - d2 > delta or d2 - d1 > delta
Skewed(d1, d2) == d1 - d2 > delta \/ d2 - d1 > delta

\* How the entry stage of handle_request ends: "error" with its code,
\* "raised" with the exception, "app" when the request is not an S3 request,
\* and the environ as it leaves it.
Outcome(kind, code, e) ==
    [kind |-> kind, code |-> code, env |-> e, account |-> "",
     route |-> [controller |-> "none"]]

\* The entry stage ends with a controller to build.
ToController(e, account, route) ==
    [kind |-> "controller", code |-> "", env |-> e, account |-> account,
     route |-> route]

\* Lines 1120-1134: the parsed Date header against the clock reading t.
CheckDate(e, t, account, route, date) ==
    IF ~date.ok THEN Outcome("error", "AccessDenied", e)
    ELSE IF ~date.valid THEN Outcome("raised", "ValueError", e)
    ELSE IF date.secs < 0 THEN Outcome("error", "AccessDenied", e)
    ELSE IF Skewed(date.secs, t) THEN Outcome("error", "RequestTimeTooSkewed", e)
    ELSE ToController(e, account, route)

\* Lines 1114-1134 with the Date header read before the path: the checks of
\* lines 1119-1134 first, lines 1114-1117 after them.
CheckPathDateFirst(e, t, account, route) ==
    LET dated == IF HasHeader(e.headers, "Date")
                 THEN CheckDate(e, t, account, route,
                                parsedate(GetHeader(e.headers, "Date")))
                 ELSE ToController(e, account, route)
    IN  IF dated.kind # "controller" THEN dated
        ELSE IF route.controller = "ValueError" THEN Outcome("error", "InvalidURI", e)
        ELSE dated

\* Lines 1114-1119: the controller of the path, then the Date header if any.
CheckPath(e, t, account, route) ==
    IF route.controller = "ValueError" THEN Outcome("error", "InvalidURI", e)
    ELSE IF HasHeader(e.headers, "Date")
    THEN CheckDate(e, t, account, route, parsedate(GetHeader(e.headers, "Date")))
    ELSE ToController(e, account, route)

\* Lines 1108-1112: account, signature = info.rsplit(':', 1)
CheckAccount(e, t, sides) ==
    IF Len(sides) # 2 THEN Outcome("error", "InvalidArgument", e)
    ELSE CheckPath(e, t, sides[1], get_controller(e.PATH_INFO))

\* Lines 1101-1106: keyword, info = req.headers['Authorization'].split(' ')
CheckAuthorization(e, t, words) ==
    IF Len(words) # 2 THEN Outcome("error", "AccessDenied", e)
    ELSE IF words[1] # "AWS" THEN Outcome("error", "AccessDenied", e)
    ELSE CheckAccount(e, t, rsplit1(words[2], ":"))

\* Lines 1090-1099: the presigned query, then the pass-through.
CheckPresigned(pre, t) ==
    IF pre.failed THEN Outcome("error", "InvalidArgument", pre.env)
    ELSE IF ~HasHeader(pre.env.headers, "Authorization")
    THEN Outcome("app", "", pre.env)
    ELSE CheckAuthorization(pre.env, t,
                            split(GetHeader(pre.env.headers, "Authorization"), " "))

\* The checks of handle_request before the controller is built, lines
\* 1090-1134, at clock reading t.
Entry(e, t) == CheckPresigned(Presign(e), t)

\* Controller.__init__ of the three classes: the token and the backend path
\* written into the environ.  The token is computed from the request before
\* the path is rewritten (line 1136).
Construct(entry) ==
    LET e == entry.env
        r == entry.route
        token == urlsafe_b64encode(canonical_string(e))
        path == CASE r.controller = "Service" -> "/v1/" \o entry.account
                  [] r.controller = "Bucket" ->
                         "/v1/" \o entry.account \o "/" \o r.container_name
                  [] r.controller = "Object" ->
                         "/v1/" \o entry.account \o "/" \o r.container_name
                             \o "/" \o r.object_name
    IN  [e EXCEPT !.headers = SetHeader(@, "X-Auth-Token", token),
                  !.PATH_INFO = path]

-----------------------------------------------------------------------------
(* What the controllers read from the backend.                             *)

MAX_BUCKET_LISTING == 1000

\* The middleware's configuration.
conf == [location |-> "EU"]

\* simplejson.loads of a listing body gave no value.
BadJson == <<[ValueError |-> TRUE]>>

Has(item, field) == field \in DOMAIN item

\* dict.get(field, default)
Get(item, field, default) == IF Has(item, field) THEN item[field] ELSE default

\* swift.common.middleware.acl.parse_acl: <<referrers, groups>> of a
\* comma-separated ACL value; the '.r:' entries are the referrers.
RECURSIVE AclEntries(_, _)
AclEntries(values, referrers) ==
    IF values = <<>> THEN <<>>
    ELSE (IF startswith(values[1], ".r:") = referrers
          THEN <<IF referrers THEN SubSeq(values[1], 4, Len(values[1]))
                 ELSE values[1]>>
          ELSE <<>>) \o AclEntries(Tail(values), referrers)

parse_acl(acl_string) ==
    IF acl_string = "" THEN << <<>>, <<>> >>
    ELSE <<AclEntries(split(acl_string, ","), TRUE),
           AclEntries(split(acl_string, ","), FALSE)>>

AMZ_ALL_USERS == "http://acs.amazonaws.com/groups/global/AllUsers"
AMZ_AUTHENTICATED_USERS == "http://acs.amazonaws.com/groups/global/AuthenticatedUsers"

\* container_server.ACL_HEADERS and obj_server.ACL_HEADERS
ACL_HEADERS(resource) ==
    IF resource = "container"
    THEN <<"x-container-read", "x-container-write", "x-container-acl-read",
           "x-container-acl-read-acp", "x-container-acl-write-acp">>
    ELSE <<"x-object-acl-read", "x-object-acl-write", "x-object-acl-read-acp",
           "x-object-acl-write-acp">>

\* amz_group_grant and amz_user_grant: one Grant element.
amz_group_grant(uri, permission) ==
    [type |-> "Group", grantee |-> uri, permission |-> permission]

amz_user_grant(id, name, permission) ==
    [type |-> "CanonicalUser", grantee |-> id, permission |-> permission]

RECURSIVE GroupGrants(_, _)
GroupGrants(referrers, permission) ==
    IF referrers = <<>> THEN <<>>
    ELSE <<amz_group_grant(IF referrers[1] = "*" THEN AMZ_ALL_USERS
                           ELSE referrers[1], permission)>>
             \o GroupGrants(Tail(referrers), permission)

RECURSIVE UserGrants(_, _)
UserGrants(groups, permission) ==
    IF groups = <<>> THEN <<>>
    ELSE <<amz_user_grant(groups[1], groups[1], permission)>>
             \o UserGrants(Tail(groups), permission)

\* The permission get_s3_acl reads off an ACL header name.
AclPermission(header, resource) ==
    LET frm == IF resource = "container"
               THEN (IF startswith(header, "x-container-acl-") THEN 16 ELSE 12)
               ELSE 13
    IN  replace(upper(SubSeq(header, frm + 1, Len(header))), "-", "_")

RECURSIVE AclGrants(_, _, _)
AclGrants(acl_headers, headers, resource) ==
    IF acl_headers = <<>> THEN <<>>
    ELSE (IF HasKey(headers, acl_headers[1])
             /\ AclPermission(acl_headers[1], resource) # ""
          THEN LET acl == parse_acl(GetKey(headers, acl_headers[1]))
                   permission == AclPermission(acl_headers[1], resource)
               IN  GroupGrants(acl[1], permission) \o UserGrants(acl[2], permission)
          ELSE <<>>) \o AclGrants(Tail(acl_headers), headers, resource)

\* get_s3_acl(headers, acl_headers, resource): the AccessControlPolicy
\* document, from the backend's headers as a dict (exact names).
get_s3_acl(headers, acl_headers, resource) ==
    LET owner_header == "x-" \o resource \o "-owner" IN
    Response(200, "application/xml", <<>>,
             [tag |-> "AccessControlPolicy",
              owner |-> IF HasKey(headers, owner_header)
                        THEN xml_escape(GetKey(headers, owner_header)) ELSE None,
              grants |-> AclGrants(acl_headers, headers, resource)])

-----------------------------------------------------------------------------
(* Request bodies and the ACL document of a PUT ?acl.                      *)

\* A request body (wsgi.input) is absent, a text that is no XML, or the
\* text of an XML document, kept as the document's tree.
NoBody == [kind |-> "absent"]

TextBody(text) == [kind |-> "text", text |-> text]

XmlBody(root) == [kind |-> "xml", root |-> root]

\* xml.dom.minidom nodes.
Text(value) == [nodeName |-> "#text", nodeValue |-> value, childNodes |-> <<>>]

Element(name, children) ==
    [nodeName |-> name, nodeValue |-> None, childNodes |-> children]

\* The text of a tree.
RECURSIVE toxml(_)
RECURSIVE toxmlAll(_)
toxml(node) ==
    IF node.nodeName = "#text" THEN node.nodeValue
    ELSE "<" \o node.nodeName \o ">" \o toxmlAll(node.childNodes)
             \o "</" \o node.nodeName \o ">"

toxmlAll(nodes) ==
    IF nodes = <<>> THEN "" ELSE toxml(nodes[1]) \o toxmlAll(Tail(nodes))

\* env['wsgi.input'].read(): what is left of the body.
read(body) == IF body.kind = "xml" THEN toxml(body.root) ELSE body.text

\* The body once it has been read.
Consumed == TextBody("")

IndexError == "<IndexError>"

\* The inner loop of parse_access_control_policy, lines 381-387: the last
\* ID, URI or EmailAddress child gives the user; IndexError at a child that
\* is empty.
RECURSIVE GranteeUser(_, _)
GranteeUser(nodes, user) ==
    IF nodes = <<>> THEN user
    ELSE IF nodes[1].nodeName \in {"ID", "URI", "EmailAddress"}
    THEN (IF nodes[1].childNodes = <<>> THEN IndexError
          ELSE GranteeUser(Tail(nodes), nodes[1].childNodes[1].nodeValue))
    ELSE GranteeUser(Tail(nodes), user)

\* The loop over the children of one Grant, lines 379-391.
RECURSIVE GrantUser(_, _)
GrantUser(nodes, user) ==
    IF nodes = <<>> \/ user.raised THEN user
    ELSE IF nodes[1].nodeName = "Grantee"
    THEN LET u == GranteeUser(nodes[1].childNodes, user.user) IN
         GrantUser(Tail(nodes),
                   IF u = IndexError THEN [user EXCEPT !.raised = TRUE]
                   ELSE [user EXCEPT !.user = u])
    ELSE IF nodes[1].nodeName = "Permission"
    THEN GrantUser(Tail(nodes),
                   IF nodes[1].childNodes = <<>> THEN [user EXCEPT !.raised = TRUE]
                   ELSE IF Truthy(nodes[1].childNodes[1].nodeValue)
                   THEN [user EXCEPT !.permissions =
                             Append(@, nodes[1].childNodes[1].nodeValue)]
                   ELSE user)
    ELSE GrantUser(Tail(nodes), user)

\* The loop over the children of the AccessControlList, lines 375-392.
RECURSIVE AclUsers(_)
AclUsers(grants) ==
    IF grants = <<>> THEN <<>>
    ELSE (IF grants[1].nodeName # "Grant" THEN <<>>
          ELSE <<GrantUser(grants[1].childNodes,
                           [user |-> "", permissions |-> <<>>, raised |-> FALSE])>>)
             \o AclUsers(Tail(grants))

\* The owner loop, lines 368-371: the last ID child of the Owner elements.
RECURSIVE OwnerId(_, _)
OwnerId(nodes, owner) ==
    IF nodes = <<>> THEN owner
    ELSE IF nodes[1].nodeName = "ID"
    THEN (IF nodes[1].childNodes = <<>> THEN IndexError
          ELSE OwnerId(Tail(nodes), nodes[1].childNodes[1].nodeValue))
    ELSE OwnerId(Tail(nodes), owner)

RECURSIVE PolicyOwner(_, _)
PolicyOwner(nodes, owner) ==
    IF nodes = <<>> \/ owner = IndexError THEN owner
    ELSE IF nodes[1].nodeName = "Owner"
    THEN PolicyOwner(Tail(nodes), OwnerId(nodes[1].childNodes, owner))
    ELSE PolicyOwner(Tail(nodes), owner)

\* The children of the last AccessControlList element, <<>> without one.
RECURSIVE PolicyAcl(_, _)
PolicyAcl(nodes, acl) ==
    IF nodes = <<>> THEN acl
    ELSE IF nodes[1].nodeName # "Owner" /\ nodes[1].nodeName = "AccessControlList"
    THEN PolicyAcl(Tail(nodes), nodes[1].childNodes)
    ELSE PolicyAcl(Tail(nodes), acl)

\* parse_access_control_policy(xml), on the body: the owner and the users
\* with their permissions, or raised.
parse_access_control_policy(body) ==
    IF body.kind # "xml" THEN [raised |-> TRUE, owner |-> "", acl |-> <<>>]
    ELSE IF body.root.nodeName # "AccessControlPolicy"
    THEN [raised |-> FALSE, owner |-> "", acl |-> <<>>]
    ELSE LET owner == PolicyOwner(body.root.childNodes, "")
             acl == AclUsers(PolicyAcl(body.root.childNodes, <<>>))
         IN  [raised |-> owner = IndexError
                             \/ \E i \in 1..Len(acl) : acl[i].raised,
              owner |-> owner, acl |-> acl]

AUTHENTICATED_USERNAME == "AUTHENTICATED_USERNAME"

\* REPLACE_USERNAMES.get(username, username)
ReplaceUsername(username) ==
    IF username = AMZ_ALL_USERS THEN ".r:*"
    ELSE IF username = AMZ_AUTHENTICATED_USERS THEN AUTHENTICATED_USERNAME
    ELSE username

\* Lines 428-434 without the test of line 431: WRITE gets the ACL_ key too.
PermissionKeyAcl(resource, permission) ==
    IF resource = "object" THEN "HTTP_X_OBJECT_ACL_" \o permission
    ELSE "HTTP_X_CONTAINER_ACL_" \o permission

\* The environ key of a permission, lines 428-434.
PermissionKey(resource, permission) ==
    IF resource = "object" THEN "HTTP_X_OBJECT_ACL_" \o permission
    ELSE IF permission = "WRITE" THEN "HTTP_X_CONTAINER_" \o permission
    ELSE "HTTP_X_CONTAINER_ACL_" \o permission

\* Lines 410-420 without line 416: the container's dict starts without
\* HTTP_X_CONTAINER_READ.
InitialPermissionsGranted(resource) ==
    IF resource = "object"
    THEN << <<"HTTP_X_OBJECT_ACL_READ", <<>> >>, <<"HTTP_X_OBJECT_ACL_WRITE", <<>> >>,
            <<"HTTP_X_OBJECT_ACL_READ_ACP", <<>> >>,
            <<"HTTP_X_OBJECT_ACL_WRITE_ACP", <<>> >> >>
    ELSE << <<"HTTP_X_CONTAINER_ACL_READ", <<>> >>,
            <<"HTTP_X_CONTAINER_WRITE", <<>> >>,
            <<"HTTP_X_CONTAINER_ACL_READ_ACP", <<>> >>,
            <<"HTTP_X_CONTAINER_ACL_WRITE_ACP", <<>> >> >>

\* The keys the permissions dict starts with, lines 410-420.
InitialPermissions(resource) ==
    IF resource = "object"
    THEN << <<"HTTP_X_OBJECT_ACL_READ", <<>> >>, <<"HTTP_X_OBJECT_ACL_WRITE", <<>> >>,
            <<"HTTP_X_OBJECT_ACL_READ_ACP", <<>> >>,
            <<"HTTP_X_OBJECT_ACL_WRITE_ACP", <<>> >> >>
    ELSE << <<"HTTP_X_CONTAINER_READ", <<>> >>, <<"HTTP_X_CONTAINER_ACL_READ", <<>> >>,
            <<"HTTP_X_CONTAINER_WRITE", <<>> >>,
            <<"HTTP_X_CONTAINER_ACL_READ_ACP", <<>> >>,
            <<"HTTP_X_CONTAINER_ACL_WRITE_ACP", <<>> >> >>

InSeq(xs, x) == \E i \in 1..Len(xs) : xs[i] = x

\* d[key] = value on a dict kept as pairs.
SetKey(pairs, key, value) ==
    IF HasKey(pairs, key)
    THEN [i \in 1..Len(pairs) |-> IF pairs[i][1] = key THEN <<key, value>> ELSE pairs[i]]
    ELSE Append(pairs, <<key, value>>)

\* permissions[key].append(username) unless it is there, lines 435-440.
AddGrantee(permissions, key, username) ==
    LET have == GetKeyOr(permissions, key, <<>>) IN
    SetKey(permissions, key,
           IF InSeq(have, username) THEN have ELSE Append(have, username))

\* The header an environ key HTTP_A_B stands for: A-B.
HeaderName(key) == replace(SubSeq(key, 6, Len(key)), "_", "-")

RECURSIVE AddPermissions(_, _, _, _)
AddPermissions(permissions, resource, username, perms) ==
    IF perms = <<>> THEN permissions
    ELSE AddPermissions(AddGrantee(permissions, PermissionKey(resource, perms[1]),
                                   ReplaceUsername(username)),
                        resource, username, Tail(perms))

RECURSIVE AddUsers(_, _, _)
AddUsers(permissions, resource, users) ==
    IF users = <<>> THEN permissions
    ELSE AddUsers(IF Truthy(users[1].user)
                  THEN AddPermissions(permissions, resource, users[1].user,
                           IF InSeq(users[1].permissions, "FULL_CONTROL")
                           THEN <<"READ", "WRITE", "READ_ACP", "WRITE_ACP">>
                           ELSE users[1].permissions)
                  ELSE permissions,
                  resource, Tail(users))

RECURSIVE WritePermissions(_, _)
WritePermissions(headers, permissions) ==
    IF permissions = <<>> THEN headers
    ELSE WritePermissions(SetHeader(headers, HeaderName(permissions[1][1]),
                                    join(",", permissions[1][2])),
                          Tail(permissions))

\* acp_to_headers(env, resource): the environ after it and the error
\* response it returns (Pending for none).
acp_to_headers(e, resource) ==
    LET acp == parse_access_control_policy(e.wsgi_input) IN
    IF e.wsgi_input.kind = "absent"
    THEN [env |-> e, res |-> get_err_response("MalformedACLError")]
    ELSE IF acp.raised
    THEN [env |-> [e EXCEPT !.wsgi_input = Consumed],
          res |-> get_err_response("MalformedACLError")]
    ELSE [env |-> [e EXCEPT !.wsgi_input = Consumed,
                            !.headers = WritePermissions(@,
                                AddUsers(InitialPermissions(resource), resource,
                                         acp.acl))],
          res |-> Pending]

\* swift_acl_translate(acl), for a canned ACL: "Unsupported",
\* "InvalidArgument" or, with "", the header/value pairs.
swift_acl_translate(acl) ==
    IF acl = "authenticated-read" THEN [error |-> "Unsupported", headers |-> <<>>]
    ELSE IF acl = "public-read"
    THEN [error |-> "",
          headers |-> << <<"X-Container-Read", ".r:*,.rlistings">> >>]
    ELSE IF acl = "public-read-write"
    THEN [error |-> "",
          headers |-> << <<"X-Container-Write", ".r:*">>,
                         <<"X-Container-Read", ".r:*,.rlistings">> >>]
    ELSE IF acl = "private"
    THEN [error |-> "",
          headers |-> << <<"X-Container-Write", ".">>, <<"X-Container-Read", ".">> >>]
    ELSE [error |-> "InvalidArgument", headers |-> <<>>]

-----------------------------------------------------------------------------
(* The controllers.  Each handler is cut at its one call of the backend:   *)
(* the part before it gives either a response or the environ to call the   *)
(* backend with, the part after it shapes the backend's reply.             *)

NoCtl ==
    [controller |-> "none", op |-> "", args |-> <<>>, max_keys |-> 0,
     head |-> FALSE, acl |-> FALSE, versioning |-> FALSE,
     account_name |-> "", container_name |-> ""]

\* What the first part of a handler leaves: the environ, the handler's
\* locals, and its response when it returns without calling the backend.
Before(e, c, r) == [env |-> e, ctl |-> c, resp |-> r]

\* The controller object: self.account_name and self.container_name.
Controller(entry, op) ==
    [NoCtl EXCEPT !.controller = entry.route.controller,
                  !.op = op,
                  !.account_name = unquote(entry.account),
                  !.container_name =
                      IF entry.route.controller = "Service" THEN ""
                      ELSE unquote(entry.route.container_name)]

\* ServiceController.GET, to the backend call.
ServiceGET(e, c) ==
    Before([e EXCEPT !.QUERY_STRING = "format=json"], c, Pending)

RECURSIVE BucketNames(_)
BucketNames(containers) ==
    IF containers = <<>> THEN <<>>
    ELSE <<xml_escape(containers[1]["name"])>> \o BucketNames(Tail(containers))

\* ServiceController.GET, from the backend's reply.
ServiceGETReply(c, reply) ==
    IF reply.status # 200
    THEN (IF reply.status \in {401, 403} THEN get_err_response("AccessDenied")
          ELSE get_err_response("InvalidURI"))
    ELSE IF reply.body = BadJson THEN NoResponse
    ELSE IF \E i \in 1..Len(reply.body) : ~Has(reply.body[i], "name") THEN NoResponse
    ELSE Response(200, "application/xml", <<>>,
                  [tag |-> "ListAllMyBucketsResult",
                   owner |-> IF reply.body # <<>>
                             THEN xml_escape(Get(reply.body[1], "owner", "")) ELSE "",
                   buckets |-> BucketNames(reply.body)])

\* min(int(args.get('max-keys', MAX_BUCKET_LISTING)), MAX_BUCKET_LISTING)
MaxKeys(args) ==
    Min(IF HasKey(args, "max-keys") THEN int(GetKey(args, "max-keys"))
        ELSE MAX_BUCKET_LISTING, MAX_BUCKET_LISTING)

\* BucketController.GET, to the backend call.
BucketGET(e, c) ==
    LET args == parse_qsl(e.QUERY_STRING)
        max_keys == MaxKeys(args)
        q0 == IF ~HasKey(args, "acl")
              THEN "format=json&limit=" \o str(max_keys + 1) ELSE e.QUERY_STRING
        q1 == IF HasKey(args, "versions") THEN q0 \o "&versions" ELSE q0
        q2 == IF HasKey(args, "marker")
              THEN q1 \o "&marker=" \o quote(GetKey(args, "marker"), "/") ELSE q1
        q3 == IF HasKey(args, "prefix")
              THEN q2 \o "&prefix=" \o quote(GetKey(args, "prefix"), "/") ELSE q2
        q4 == IF HasKey(args, "delimiter")
              THEN q3 \o "&delimiter=" \o quote(GetKey(args, "delimiter"), "/") ELSE q3
    IN  IF HasKey(args, "max-keys") /\ ~isdigit(GetKey(args, "max-keys"))
        THEN Before(e, c, get_err_response("InvalidArgument"))
        ELSE Before([e EXCEPT !.QUERY_STRING = q4,
                              !.REQUEST_METHOD =
                                  IF HasKey(args, "acl") THEN "HEAD" ELSE @],
                    [c EXCEPT !.args = args, !.max_keys = max_keys], Pending)

\* The fields the ListVersionsResult loop reads of an item.
VersionFields(obj) ==
    IF Has(obj, "subdir") THEN {}
    ELSE IF ~Has(obj, "deleted") THEN {"deleted"}
    ELSE IF obj["deleted"]
    THEN {"name", "version_id", "is_latest", "last_modified"}
    ELSE {"name", "version_id", "is_latest", "last_modified", "hash", "bytes",
          "owner"}

\* The fields the ListBucketResult loop reads of an item.
ContentsFields(i) ==
    IF Has(i, "subdir") THEN {} ELSE {"name", "last_modified", "hash", "bytes"}

\* The DeleteMarker and Version elements, one per item that is no subdir.
RECURSIVE VersionEntries(_)
VersionEntries(objects) ==
    IF objects = <<>> THEN <<>>
    ELSE (IF Has(objects[1], "subdir") THEN <<>>
          ELSE <<[tag |-> IF objects[1]["deleted"] THEN "DeleteMarker" ELSE "Version",
                  key |-> xml_escape(unquote(objects[1]["name"]))]>>)
             \o VersionEntries(Tail(objects))

\* The CommonPrefixes elements of the subdir items.
RECURSIVE PrefixEntries(_, _)
PrefixEntries(objects, decode) ==
    IF objects = <<>> THEN <<>>
    ELSE (IF Has(objects[1], "subdir")
          THEN <<[tag |-> "CommonPrefixes",
                  key |-> xml_escape(IF decode THEN unquote(objects[1]["subdir"])
                                     ELSE objects[1]["subdir"])]>>
          ELSE <<>>) \o PrefixEntries(Tail(objects), decode)

\* The loop of lines 757-780 leaving after its first item.
ContentsEntriesFirst(objects) ==
    IF objects = <<>> \/ Has(objects[1], "subdir") THEN <<>>
    ELSE <<[tag |-> "Contents", key |-> xml_escape(unquote(objects[1]["name"]))]>>

\* The Contents elements, one per item that is no subdir.
RECURSIVE ContentsEntries(_)
ContentsEntries(objects) ==
    IF objects = <<>> THEN <<>>
    ELSE (IF Has(objects[1], "subdir") THEN <<>>
          ELSE <<[tag |-> "Contents",
                  key |-> xml_escape(unquote(objects[1]["name"]))]>>)
             \o ContentsEntries(Tail(objects))

capitalize(s) == IF s = "" THEN "" ELSE upper(Head(s)) \o lower(Tail(s))

\* IsTruncated of the ListVersionsResult, line 748.
VersionsTruncated(objects, max_keys) == Len(objects) = max_keys + 1

\* IsTruncated of the ListBucketResult, lines 796-797.
ListTruncated(objects, max_keys) == max_keys > 0 /\ Len(objects) = max_keys + 1

\* The listing documents of BucketController.GET, lines 692-802.
Listing(c, objects) ==
    LET args == c.args IN
    IF objects = BadJson THEN NoResponse
    ELSE IF HasKey(args, "versions")
    THEN (IF \E k \in 1..Len(objects) : ~(VersionFields(objects[k]) \subseteq DOMAIN objects[k])
          THEN NoResponse
          ELSE Response(200, "application/xml", <<>>,
                   [tag |-> "ListVersionsResult",
                    Prefix |-> xml_escape(GetKeyOr(args, "prefix", "")),
                    KeyMarker |-> xml_escape(GetKeyOr(args, "key-marker", "")),
                    VersionIdMarker |->
                        xml_escape(GetKeyOr(args, "version-id-marker", "")),
                    Delimiter |-> xml_escape(GetKeyOr(args, "delimiter", "")),
                    IsTruncated |-> VersionsTruncated(objects, c.max_keys),
                    MaxKeys |-> c.max_keys,
                    Name |-> xml_escape(c.container_name),
                    entries |-> VersionEntries(objects)
                        \o PrefixEntries(SubSeq(objects, 1, Min(c.max_keys, Len(objects))),
                                         FALSE)]))
    ELSE (IF \E k \in 1..Len(objects) : ~(ContentsFields(objects[k]) \subseteq DOMAIN objects[k])
          THEN NoResponse
          ELSE Response(200, "application/xml", <<>>,
                   [tag |-> "ListBucketResult",
                    Prefix |-> xml_escape(GetKeyOr(args, "prefix", "")),
                    Marker |-> xml_escape(GetKeyOr(args, "marker", "")),
                    Delimiter |-> xml_escape(GetKeyOr(args, "delimiter", "")),
                    IsTruncated |-> ListTruncated(objects, c.max_keys),
                    MaxKeys |-> c.max_keys,
                    Name |-> xml_escape(c.container_name),
                    entries |-> ContentsEntries(objects) \o PrefixEntries(objects, TRUE)]))

\* The status mapping of BucketController.GET, lines 658-664.
BucketGETError(status) ==
    IF status \in {401, 403} THEN get_err_response("AccessDenied")
    ELSE IF status = 404 THEN get_err_response("NoSuchBucket")
    ELSE get_err_response("InvalidURI")

\* BucketController.GET, from the backend's reply.
BucketGETReply(c, reply) ==
    LET args == c.args IN
    IF HasKey(args, "acl")
    THEN get_s3_acl(reply.headers, ACL_HEADERS("container"), "container")
    ELSE IF reply.status # 200 THEN BucketGETError(reply.status)
    ELSE IF HasKey(args, "location")
    THEN Response(200, "application/xml", <<>>,
                  [tag |-> "LocationConstraint",
                   value |-> IF conf.location = "US" THEN "" ELSE conf.location])
    ELSE IF HasKey(args, "versioning")
    THEN Response(200, "application/xml", <<>>,
                  [tag |-> "VersioningConfiguration",
                   Status |-> capitalize(GetHeaderOr(reply.headers,
                                             "x-container-versioning", ""))])
    ELSE IF HasKey(args, "logging")
    THEN Response(200, "application/xml", <<>>, [tag |-> "BucketLoggingStatus"])
    ELSE Listing(c, reply.body)

\* BucketController.DELETE, to the backend call.
BucketDELETE(e, c) == Before(e, c, Pending)

\* BucketController.DELETE, from the backend's reply.
BucketDELETEReply(c, reply) ==
    IF reply.status # 204
    THEN (IF reply.status \in {401, 403} THEN get_err_response("AccessDenied")
          ELSE IF reply.status = 404 THEN get_err_response("NoSuchBucket")
          ELSE IF reply.status = 409 THEN get_err_response("BucketNotEmpty")
          ELSE get_err_response("InvalidURI"))
    ELSE Response(204, "", <<>>, NoDoc)

\* A BucketController.POST that hands the request to the backend.
BucketPOSTCalls(e, c) == Before(e, c, Pending)

\* BucketController.POST
BucketPOST(e, c) == Before(e, c, get_err_response("Unsupported"))

\* is_success(status)
is_success(status) == 200 <= status /\ status <= 299

PassedHeaders ==
    {"content-length", "content-type", "content-range", "content-encoding",
     "etag", "last-modified"}

\* new_hdrs without the test of lines 957-959: a header that is no metadata
\* is handed on whatever its name.
RECURSIVE NewHeadersAll(_)
NewHeadersAll(headers) ==
    IF headers = <<>> THEN <<>>
    ELSE LET key == headers[1][1]
             val == headers[1][2]
         IN  (IF startswith(lower(key), "x-object-meta-")
              THEN << <<"x-amz-meta-" \o SubSeq(key, 15, Len(key)), val>> >>
              ELSE << <<key, val>> >>) \o NewHeadersAll(Tail(headers))

\* new_hdrs of ObjectController.GETorHEAD, lines 952-960.
RECURSIVE NewHeaders(_)
NewHeaders(headers) ==
    IF headers = <<>> THEN <<>>
    ELSE LET key == headers[1][1]
             val == headers[1][2]
         IN  (IF startswith(lower(key), "x-object-meta-")
              THEN << <<"x-amz-meta-" \o SubSeq(key, 15, Len(key)), val>> >>
              ELSE IF lower(key) \in PassedHeaders THEN << <<key, val>> >>
              ELSE <<>>) \o NewHeaders(Tail(headers))

\* ObjectController.GETorHEAD, to the backend call.
ObjectGETorHEAD(e, c) ==
    LET head == e.REQUEST_METHOD = "HEAD"
        args == parse_qsl(e.QUERY_STRING)
        q1 == IF HasKey(args, "acl") THEN "acl" ELSE ""
        q2 == IF HasKey(args, "versionId")
              THEN q1 \o "versionId=" \o GetKey(args, "versionId") ELSE q1
    IN  Before([e EXCEPT !.QUERY_STRING = q2,
                         !.REQUEST_METHOD = IF HasKey(args, "acl") THEN "HEAD"
                                            ELSE IF head THEN "GET" ELSE @],
               [c EXCEPT !.head = head, !.args = args], Pending)

\* ObjectController.GETorHEAD, from the backend's reply; e is the environ
\* the backend was called with.
ObjectGETorHEADReply(e, c, reply) ==
    IF is_success(reply.status)
    THEN (IF HasKey(parse_qsl(e.QUERY_STRING), "acl")
          THEN get_s3_acl(reply.headers, ACL_HEADERS("object"), "object")
          ELSE Response(reply.status, "", NewHeaders(reply.headers),
                        [tag |-> "app_iter",
                         body |-> IF c.head THEN None ELSE "body"]))
    ELSE IF reply.status \in {401, 403} THEN get_err_response("AccessDenied")
    ELSE IF reply.status = 404 THEN get_err_response("NoSuchKey")
    ELSE get_err_response("InvalidURI")

\* ObjectController.DELETE, to the backend call.
ObjectDELETE(e, c) == Before(e, c, Pending)

\* ObjectController.DELETE, from the backend's reply.
ObjectDELETEReply(c, reply) ==
    IF reply.status # 204
    THEN (IF reply.status \in {401, 403} THEN get_err_response("AccessDenied")
          ELSE IF reply.status = 404 THEN get_err_response("NoSuchKey")
          ELSE get_err_response("InvalidURI"))
    ELSE Response(204, "", <<>>, NoDoc)

RECURSIVE SetHeaders(_, _)
SetHeaders(headers, pairs) ==
    IF pairs = <<>> THEN headers
    ELSE SetHeaders(SetHeader(headers, pairs[1][1], pairs[1][2]), Tail(pairs))

\* int(env['CONTENT_LENGTH']) succeeds and is not negative, lines 808-814.
ContentLengthOk(text) == isdigit(text)

\* Lines 849-856: the canned ACL is translated and written into the environ.
PutTranslated(e, c, translated_acl) ==
    IF translated_acl.error # ""
    THEN Before(e, c, get_err_response(translated_acl.error))
    ELSE Before([e EXCEPT !.headers = SetHeaders(@, translated_acl.headers)], c, Pending)

\* Lines 843-856 without line 849: the x-amz-acl header stays in the environ.
PutCannedAclKeepsHeader(e, c) ==
    IF ~c.acl /\ ~c.versioning /\ HasHeader(e.headers, "x-amz-acl")
    THEN PutTranslated(e, c, swift_acl_translate(GetHeader(e.headers, "x-amz-acl")))
    ELSE Before(e, c, Pending)

\* Lines 843-856: the x-amz-acl header of a PUT that has neither ?acl nor
\* ?versioning.
PutCannedAcl(e, c) ==
    IF ~c.acl /\ ~c.versioning /\ HasHeader(e.headers, "x-amz-acl")
    THEN PutTranslated([e EXCEPT !.headers = DelHeader(@, "x-amz-acl")], c,
                       swift_acl_translate(GetHeader(e.headers, "x-amz-acl")))
    ELSE Before(e, c, Pending)

\* Lines 833-841: the versioning configuration that was read.
PutVersioningConf(e, c, versioning_conf) ==
    IF Contains(versioning_conf, "Enabled")
    THEN PutCannedAcl([e EXCEPT !.headers =
                                    SetHeader(@, "X-Container-Versioning", "enabled"),
                                !.REQUEST_METHOD = "POST"], c)
    ELSE IF Contains(versioning_conf, "Suspended")
    THEN PutCannedAcl([e EXCEPT !.headers =
                                    SetHeader(@, "X-Container-Versioning", "suspended"),
                                !.REQUEST_METHOD = "POST"], c)
    ELSE Before(e, c, get_err_response("IllegalVersioningConfigurationException"))

\* Lines 828-841: PUT ?versioning.
PutVersioning(e, c) ==
    IF ~c.versioning THEN PutCannedAcl(e, c)
    ELSE IF e.wsgi_input.kind = "absent"
    THEN Before(e, c, get_err_response("IllegalVersioningConfigurationException"))
    ELSE PutVersioningConf([e EXCEPT !.wsgi_input = Consumed], c, read(e.wsgi_input))

\* Lines 821-826: what acp_to_headers left of a PUT ?acl.
PutAclHeaders(acp, c) ==
    IF acp.res.kind # "pending" THEN Before(acp.env, c, acp.res)
    ELSE PutVersioning([acp.env EXCEPT !.REQUEST_METHOD = "POST"], c)

\* Lines 816-826: the query is parsed; PUT ?acl.
PutAcl(e, c, args) ==
    IF HasKey(args, "acl")
    THEN PutAclHeaders(acp_to_headers(e, "container"),
                       [c EXCEPT !.args = args, !.acl = TRUE,
                                 !.versioning = HasKey(args, "versioning")])
    ELSE PutVersioning(e, [c EXCEPT !.args = args, !.acl = FALSE,
                                    !.versioning = HasKey(args, "versioning")])

\* BucketController.PUT, to the backend call.
BucketPUT(e, c) ==
    IF HasHeader(e.headers, "Content-Length")
       /\ ~ContentLengthOk(GetHeader(e.headers, "Content-Length"))
    THEN Before(e, c, get_err_response("InvalidArgument"))
    ELSE PutAcl(e, c, parse_qsl(e.QUERY_STRING))

\* BucketController.PUT from the backend's reply, without the test of line
\* 870: Location is set on every success.
BucketPUTReplyWithLocation(c, reply) ==
    IF reply.status # 201 /\ reply.status # 204
    THEN (IF reply.status \in {401, 403} THEN get_err_response("AccessDenied")
          ELSE IF reply.status = 202 THEN get_err_response("BucketAlreadyExists")
          ELSE get_err_response("InvalidURI"))
    ELSE Response(200, "", << <<"Location", c.container_name>> >>, NoDoc)

\* BucketController.PUT, from the backend's reply.
BucketPUTReply(c, reply) ==
    IF reply.status # 201 /\ reply.status # 204
    THEN (IF reply.status \in {401, 403} THEN get_err_response("AccessDenied")
          ELSE IF reply.status = 202 THEN get_err_response("BucketAlreadyExists")
          ELSE get_err_response("InvalidURI"))
    ELSE Response(200, "",
                  IF ~c.versioning THEN << <<"Location", c.container_name>> >>
                  ELSE <<>>,
                  NoDoc)

\* value.decode('base64').encode('hex') on the Content-MD5 values of the
\* model; "<Error>" when the decoding raises.
Base64ToHex(value) ==
    IF value = "1B2M2Y8AsgTpgAmY7PhCfg==" THEN "d41d8cd98f00b204e9800998ecf8427e"
    ELSE IF value = "====" THEN ""
    ELSE "<Error>"

\* Lines 998-1001 without the del of line 1000: the x-amz-meta-* header
\* stays beside the new one.
RECURSIVE RenameObjectHeadersKeeping(_)
RenameObjectHeadersKeeping(headers) ==
    IF headers = <<>> THEN <<>>
    ELSE LET key == headers[1][1] IN
         (IF startswith(lower(key), "x-amz-meta-")
          THEN <<headers[1],
                 <<"X-Object-Meta-" \o SubSeq(key, 12, Len(key)), headers[1][2]>> >>
          ELSE <<headers[1]>>) \o RenameObjectHeadersKeeping(Tail(headers))

\* The renaming of the x-amz-meta-* headers and the copy header, lines
\* 998-1001 and 1011-1012.
RECURSIVE RenameObjectHeaders(_)
RenameObjectHeaders(headers) ==
    IF headers = <<>> THEN <<>>
    ELSE LET key == headers[1][1] IN
         (IF startswith(lower(key), "x-amz-meta-")
          THEN << <<"X-Object-Meta-" \o SubSeq(key, 12, Len(key)), headers[1][2]>> >>
          ELSE <<headers[1]>>) \o RenameObjectHeaders(Tail(headers))

\* ObjectController.PUT, to the backend call.
ObjectPUT(e, c) ==
    LET args == parse_qsl(e.QUERY_STRING)
        acl == HasKey(args, "acl")
        acp == acp_to_headers(e, "object")
        md5 == GetHeader(e.headers, "Content-MD5")
        h1 == RenameObjectHeaders(e.headers)
        h2 == IF HasHeader(h1, "Content-MD5")
              THEN SetHeader(h1, "ETag", Base64ToHex(md5)) ELSE h1
        h3 == IF HasHeader(h2, "x-amz-copy-source")
              THEN SetHeader(h2, "X-Copy-From", GetHeader(h2, "x-amz-copy-source"))
              ELSE h2
        c1 == [c EXCEPT !.args = args, !.acl = acl]
    IN  IF acl
        THEN (IF acp.res.kind # "pending" THEN Before(acp.env, c1, acp.res)
              ELSE Before([acp.env EXCEPT !.QUERY_STRING = "acl",
                                          !.REQUEST_METHOD = "POST"], c1, Pending))
        ELSE IF HasHeader(e.headers, "Content-MD5") /\ md5 = ""
        THEN Before(e, c1, get_err_response("InvalidDigest"))
        ELSE IF HasHeader(e.headers, "Content-MD5") /\ Base64ToHex(md5) = "<Error>"
        THEN Before(e, c1, get_err_response("InvalidDigest"))
        ELSE IF HasHeader(e.headers, "Content-MD5") /\ Base64ToHex(md5) = ""
        THEN Before([e EXCEPT !.headers = SetHeader(@, "ETag", "")], c1,
                    get_err_response("SignatureDoesNotMatch"))
        ELSE Before([e EXCEPT !.headers = h3], c1, Pending)

\* ObjectController.PUT from the backend's reply, with HTTP_CREATED as the
\* success status of both modes (line 1017 without its test of acl).
ObjectPUTReplyCreated(e, c, reply) ==
    LET etag == GetHeaderOr(reply.headers, "etag", None)
    IN  IF reply.status # 201
        THEN (IF reply.status \in {401, 403} THEN get_err_response("AccessDenied")
              ELSE IF reply.status = 404 THEN get_err_response("NoSuchBucket")
              ELSE IF reply.status = 422 THEN get_err_response("InvalidDigest")
              ELSE get_err_response("InvalidURI"))
        ELSE IF ~c.acl /\ HasHeader(e.headers, "X-Copy-From")
        THEN Response(200, "", <<>>, [tag |-> "CopyObjectResult", ETag |-> etag])
        ELSE Response(200, "",
                      IF ~c.acl THEN << <<"ETag", etag>> >> ELSE <<>>, NoDoc)

\* ObjectController.PUT, from the backend's reply; e is the environ the
\* backend was called with.
ObjectPUTReply(e, c, reply) ==
    LET success_status == IF c.acl THEN 202 ELSE 201
        etag == GetHeaderOr(reply.headers, "etag", None)
    IN  IF reply.status # success_status
        THEN (IF reply.status \in {401, 403} THEN get_err_response("AccessDenied")
              ELSE IF reply.status = 404 THEN get_err_response("NoSuchBucket")
              ELSE IF reply.status = 422 THEN get_err_response("InvalidDigest")
              ELSE get_err_response("InvalidURI"))
        ELSE IF ~c.acl /\ HasHeader(e.headers, "X-Copy-From")
        THEN Response(200, "", <<>>, [tag |-> "CopyObjectResult", ETag |-> etag])
        ELSE Response(200, "",
                      IF ~c.acl THEN << <<"ETag", etag>> >> ELSE <<>>, NoDoc)

-----------------------------------------------------------------------------
(* The requests, clock readings and backend replies of the model.          *)

MaxParams == 2
MaxItems == 2

Request(method, path, query, headers, body) ==
    [REQUEST_METHOD |-> method, PATH_INFO |-> path, QUERY_STRING |-> query,
     headers |-> headers, wsgi_input |-> body]

\* The sequences of at most n distinct members of a pool, in any order.
RECURSIVE Arrangements(_, _)
Arrangements(pool, n) ==
    IF n = 0 THEN {<<>>}
    ELSE LET shorter == Arrangements(pool, n - 1) IN
         shorter \cup {Append(q, x) : q \in {r \in shorter : Len(r) = n - 1},
                                      x \in pool}

Distinct(q) == \A i, j \in 1..Len(q) : i # j => q[i] # q[j]

Queries(pool) == {join("&", q) : q \in {r \in Arrangements(pool, MaxParams) : Distinct(r)}}

Now0 == delta + 1

AuthHeaders ==
    {<<>>, << <<"Authorization", "AWS a:s">> >>, << <<"Authorization", "AWS t:u:s">> >>,
     << <<"Authorization", "AWS as">> >>, << <<"Authorization", "Basic a:s">> >>,
     << <<"Authorization", "AWS a:s x">> >>, << <<"Authorization", "AWS">> >>}

DateHeaders ==
    {<<>>, << <<"Date", "junk">> >>, << <<"Date", "">> >>, << <<"Date", "@-1">> >>,
     << <<"Date", "@0">> >>, << <<"Date", "@1">> >>, << <<"Date", "@1201">> >>,
     << <<"Date", "@1202">> >>, << <<"Date", "@7801 +2">> >>,
     << <<"Date", "@601 -1">> >>, << <<"Date", "@601 Feb30">> >>}

Signed == << <<"Authorization", "AWS a:s">> >>

\* Every method on every kind of path, with every shape of credentials and
\* of date.
EntryRequests ==
    {Request(m, p, "", a \o d, NoBody) :
        m \in {"GET", "HEAD", "PUT", "DELETE", "POST", "OPTIONS"},
        p \in {"", "/", "/b", "/b/k", "/b/k/x", "b/k", "//k"},
        a \in AuthHeaders, d \in DateHeaders}

\* Signed requests with a date, around the edges of the skew window.
ClockRequests ==
    {Request("GET", "/b", "", Signed \o d, NoBody) : d \in DateHeaders \ {<<>>}}

\* Presigned requests.
PresignedRequests ==
    {Request("GET", p, q, a, NoBody) :
        p \in {"/b", "b"},
        q \in {"AWSAccessKeyId=a", "AWSAccessKeyId=a&Expires=@601",
               "AWSAccessKeyId=a&Signature=s",
               "AWSAccessKeyId=a&Expires=@601&Signature=s",
               "AWSAccessKeyId=a&Expires=1141889120&Signature=s",
               "AWSAccessKeyId=a&Expires=@0&Signature=s",
               "AWSAccessKeyId=a+b&Expires=@601&Signature=s"},
        a \in {<<>>, << <<"Authorization", "Basic a:s">> >>}}

\* GET Bucket with every combination of its query parameters.
BucketQueryPool ==
    {"max-keys=0", "max-keys=1", "max-keys=x", "max-keys=2000", "versions", "acl",
     "location", "versioning", "logging", "marker=a b", "delimiter=/"}

BucketGetRequests ==
    {Request("GET", "/b", q, Signed, NoBody) : q \in Queries(BucketQueryPool)}

\* GET and HEAD Object.
ObjectGetRequests ==
    {Request(m, "/b/k", q, Signed, NoBody) :
        m \in {"GET", "HEAD"},
        q \in Queries({"acl", "versionId=3", "versionId=a%26b", "prefix=p"})}

AclPolicy ==
    Element("AccessControlPolicy",
        <<Element("Owner", <<Element("ID", <<Text("o")>>)>>),
          Element("AccessControlList",
              <<Element("Grant",
                    <<Element("Grantee", <<Element("ID", <<Text("alice")>>)>>),
                      Element("Permission", <<Text("FULL_CONTROL")>>)>>),
                Element("Grant",
                    <<Element("Grantee", <<Element("URI", <<Text(AMZ_ALL_USERS)>>)>>),
                      Element("Permission", <<Text("READ")>>)>>)>>)>>)

\* One Grant element of a policy.
Grant(identifiers, permission) ==
    Element("Grant", <<Element("Grantee", identifiers),
                       Element("Permission", <<Text(permission)>>)>>)

\* A policy that names a grantee twice, the two groups, and a grantee that
\* the replacement of a group turns into one already there.
AclPolicyRepeated ==
    Element("AccessControlPolicy",
        <<Element("AccessControlList",
              <<Grant(<<Element("ID", <<Text("bob")>>)>>, "READ"),
                Grant(<<Element("URI", <<Text(AMZ_AUTHENTICATED_USERS)>>)>>, "WRITE"),
                Grant(<<Element("ID", <<Text("bob")>>)>>, "READ"),
                Grant(<<Element("ID", <<Text(".r:*")>>)>>, "READ_ACP"),
                Grant(<<Element("URI", <<Text(AMZ_ALL_USERS)>>)>>, "READ_ACP"),
                Grant(<<Element("EmailAddress", <<Text("c@x")>>)>>, "FULL_CONTROL")>>)>>)

\* A policy whose grantees carry two identifiers each, in both orders.
AclPolicyTwoIds ==
    Element("AccessControlPolicy",
        <<Element("AccessControlList",
              <<Grant(<<Element("ID", <<Text("alice")>>),
                        Element("URI", <<Text(AMZ_ALL_USERS)>>)>>, "READ"),
                Grant(<<Element("EmailAddress", <<Text("c@x")>>),
                        Element("ID", <<Text("carol")>>)>>, "WRITE")>>)>>)

Bodies ==
    {NoBody, TextBody("junk"), XmlBody(AclPolicy), XmlBody(AclPolicyRepeated),
     XmlBody(AclPolicyTwoIds),
     XmlBody(Element("VersioningConfiguration",
                     <<Element("Status", <<Text("Enabled")>>)>>)),
     XmlBody(Element("AccessControlPolicy",
                     <<Element("AccessControlList",
                           <<Element("Grant",
                                 <<Element("Grantee", <<Element("ID", <<>>)>>)>>)>>)>>))}

\* PUT Bucket.
BucketPutRequests ==
    {Request("PUT", "/b", q, Signed \o h, b) :
        q \in Queries({"acl", "versioning"}),
        h \in {<<>>, << <<"x-amz-acl", "private">> >>,
               << <<"x-amz-acl", "public-read">> >>,
               << <<"X-Amz-Acl", "public-read-write">> >>,
               << <<"x-amz-acl", "authenticated-read">> >>,
               << <<"x-amz-acl", "bogus">> >>,
               << <<"Content-Length", "5">> >>, << <<"Content-Length", "-1">> >>,
               << <<"Content-Length", "x">>, <<"x-amz-acl", "private">> >>,
               << <<"X-Container-Read", "old">>, <<"X-Container-Acl-Read", "old">> >>},
        b \in Bodies}

\* PUT Object.
ObjectPutRequests ==
    {Request("PUT", "/b/k", q, Signed \o h, b) :
        q \in {"", "acl"},
        h \in {<<>>, << <<"X-Amz-Meta-Color", "red">> >>,
               << <<"Content-MD5", "1B2M2Y8AsgTpgAmY7PhCfg==">> >>,
               << <<"Content-MD5", "">> >>, << <<"Content-MD5", "abc">> >>,
               << <<"Content-MD5", "====">> >>,
               << <<"x-amz-copy-source", "/b/src">>, <<"x-amz-meta-a", "1">> >>,
               << <<"X-Copy-From", "/b/src">> >>},
        b \in {NoBody, TextBody("junk"), XmlBody(AclPolicy),
               XmlBody(AclPolicyRepeated), XmlBody(AclPolicyTwoIds)}}

\* A request and the clock reading it is handled at.
Arrivals ==
    {<<r, Now0>> : r \in EntryRequests \cup PresignedRequests \cup BucketGetRequests
                         \cup ObjectGetRequests \cup BucketPutRequests
                         \cup ObjectPutRequests}
        \cup {<<r, t>> : r \in ClockRequests, t \in {Now0, Now0 + 1}}

Statuses == {200, 201, 202, 204, 206, 401, 403, 404, 409, 422, 500}

Reply(status, headers, body) == [status |-> status, headers |-> headers, body |-> body]

NoReply == Reply(0, <<>>, <<>>)

\* The items of a listing body.
ItemPool ==
    {[name |-> "k%201", last_modified |-> "t", hash |-> "h", bytes |-> "1"],
     [name |-> "k2", version_id |-> "v", is_latest |-> TRUE, deleted |-> FALSE,
      last_modified |-> "t", hash |-> "h", bytes |-> "1", owner |-> "o"],
     [name |-> "k3", version_id |-> "v", is_latest |-> TRUE, deleted |-> TRUE,
      last_modified |-> "t"],
     [subdir |-> "p/"]}

JsonBodies == Arrangements(ItemPool, MaxItems) \cup {BadJson}

\* The header sets a backend reply may carry, by the kind of resource.
ReplyHeaders(controller) ==
    CASE controller = "Bucket" ->
            { << <<"X-Container-Versioning", "enabled">> >>,
              << <<"x-container-owner", "o&o">>, <<"x-container-read", ".r:*,bob">>,
                 <<"x-container-acl-write-acp", "alice">> >>,
              << <<"X-Container-Read", ".r:*">> >> }
      [] controller = "Object" ->
            { << <<"X-Object-Meta-Color", "red">>, <<"Content-Length", "3">>,
                 <<"Etag", "e">>, <<"X-Timestamp", "1">>, <<"X-Auth-Token", "t">>,
                 <<"x-object-acl-read", "bob">> >>,
              << <<"etag", "e">> >>,
              << <<"x-object-owner", "o">>, <<"x-object-acl-read", ".r:*,bob">> >> }
      [] OTHER -> {}

\* The replies of the backend to the call of a controller.
Replies(c) ==
    {Reply(st, <<>>, <<>>) : st \in Statuses}
        \cup {Reply(st, h, <<>>) : st \in {200, 201, 202, 404},
                                   h \in ReplyHeaders(c.controller)}
        \cup (IF c.op = "GET" /\ c.controller \in {"Service", "Bucket"}
              THEN {Reply(200, <<>>, b) : b \in JsonBodies} ELSE {})

-----------------------------------------------------------------------------
(* The middleware handling one request: Swift3Middleware.__call__.         *)

Idle == Request("", "", "", <<>>, NoBody)

NoCanon == [first |-> None, cur |-> None]

\* No document has been parsed.
NoAcp == [raised |-> FALSE, owner |-> "", acl |-> <<>>]

Init ==
    /\ pc = "idle"
    /\ inbound = Idle
    /\ env = Idle
    /\ now = 0
    /\ ctl = NoCtl
    /\ calls = <<>>
    /\ answer = NoReply
    /\ resp = Pending
    /\ canon = NoCanon
    /\ parsed = NoAcp

\* A request arrives.
Accept ==
    /\ pc = "idle"
    /\ \E a \in Arrivals :
           /\ inbound' = a[1]
           /\ env' = a[1]
           /\ now' = a[2]
    /\ pc' = "accepted"
    /\ UNCHANGED <<ctl, calls, resp, canon, answer, parsed>>

\* The request goes downstream after the token has been put into it.
PassThroughWithToken ==
    /\ pc = "accepted"
    /\ \E entry \in {Entry(env, now)} :
           /\ entry.kind = "app"
           /\ env' = [entry.env EXCEPT !.headers =
                         SetHeader(@, "X-Auth-Token",
                                   urlsafe_b64encode(canonical_string(entry.env)))]
           /\ calls' = Append(calls, env')
    /\ \E st \in Statuses :
           /\ answer' = Reply(st, <<>>, <<>>)
           /\ resp' = Downstream(answer')
    /\ pc' = "done"
    /\ UNCHANGED <<inbound, now, ctl, canon, parsed>>

\* handle_request, lines 1098-1099: a request without credentials goes to
\* the downstream application, whose answer is the response.
PassThrough ==
    /\ pc = "accepted"
    /\ \E entry \in {Entry(env, now)} :
           /\ entry.kind = "app"
           /\ env' = entry.env
           /\ calls' = Append(calls, entry.env)
    /\ \E st \in Statuses :
           /\ answer' = Reply(st, <<>>, <<>>)
           /\ resp' = Downstream(answer')
    /\ pc' = "done"
    /\ UNCHANGED <<inbound, now, ctl, canon, parsed>>

\* handle_request returns an error response of its own, lines 1090-1134.
Reject ==
    /\ pc = "accepted"
    /\ \E entry \in {Entry(env, now)} :
           /\ entry.kind = "error"
           /\ env' = entry.env
           /\ resp' = get_err_response(entry.code)
    /\ pc' = "done"
    /\ UNCHANGED <<inbound, now, ctl, calls, canon, answer, parsed>>

\* __call__, lines 1080-1083: handle_request raises, the exception is logged
\* and __call__ returns nothing.
Swallow ==
    /\ pc = "accepted"
    /\ \E entry \in {Entry(env, now)} :
           /\ entry.kind = "raised"
           /\ env' = entry.env
    /\ resp' = NoResponse
    /\ pc' = "done"
    /\ UNCHANGED <<inbound, now, ctl, calls, canon, answer, parsed>>

\* handle_request, lines 1136-1139: the request passed the checks, the token
\* is computed and the controller of its path is built.
Route ==
    /\ pc = "accepted"
    /\ \E entry \in {Entry(env, now)} :
           /\ entry.kind = "controller"
           /\ env' = Construct(entry)
           /\ ctl' = Controller(entry, "")
    /\ pc' = "routed"
    /\ UNCHANGED <<inbound, now, calls, resp, canon, answer, parsed>>

\* handle_request, lines 1141-1146: the controller has no handler of the
\* request's method.
RejectMethod ==
    /\ pc = "routed"
    /\ env.REQUEST_METHOD \notin Methods(ctl.controller)
    /\ resp' = get_err_response("InvalidURI")
    /\ pc' = "done"
    /\ UNCHANGED <<inbound, env, now, ctl, calls, canon, answer, parsed>>

\* handle_request, lines 1141-1144: the controller has a handler of the
\* request's method.
Dispatched(controller, methods) ==
    /\ pc = "routed"
    /\ ctl.controller = controller
    /\ env.REQUEST_METHOD \in methods

\* The handler has run to its return or to its call of the backend: b is
\* what it leaves.
Started(b) ==
    /\ env' = b.env
    /\ ctl' = b.ctl
    /\ resp' = b.resp
    /\ IF b.resp = Pending
       THEN pc' = "backend" /\ calls' = Append(calls, b.env)
       ELSE pc' = "done" /\ UNCHANGED calls
    /\ UNCHANGED <<inbound, now, canon, answer, parsed>>

\* The handler of a controller waits for the backend's answer.
Calling(controller, methods) ==
    /\ pc = "backend"
    /\ ctl.controller = controller
    /\ ctl.op \in methods

\* The backend has answered r and the handler returns its response.
Returned(r, response) ==
    /\ answer' = r
    /\ resp' = response
    /\ pc' = "done"
    /\ UNCHANGED <<inbound, env, now, ctl, calls, canon, parsed>>

\* The controller object with the handler's name.
Handler == [ctl EXCEPT !.op = env.REQUEST_METHOD]

GetService ==
    /\ Dispatched("Service", {"GET"})
    /\ Started(ServiceGET(env, Handler))

GetServiceReturns ==
    /\ Calling("Service", {"GET"})
    /\ \E r \in Replies(ctl) : Returned(r, ServiceGETReply(ctl, r))

GetBucket ==
    /\ Dispatched("Bucket", {"GET"})
    /\ Started(BucketGET(env, Handler))

GetBucketReturns ==
    /\ Calling("Bucket", {"GET"})
    /\ \E r \in Replies(ctl) : Returned(r, BucketGETReply(ctl, r))

PutBucket ==
    /\ Dispatched("Bucket", {"PUT"})
    /\ Started(BucketPUT(env, Handler))

PutBucketReturns ==
    /\ Calling("Bucket", {"PUT"})
    /\ \E r \in Replies(ctl) : Returned(r, BucketPUTReply(ctl, r))

DeleteBucket ==
    /\ Dispatched("Bucket", {"DELETE"})
    /\ Started(BucketDELETE(env, Handler))

DeleteBucketReturns ==
    /\ Calling("Bucket", {"DELETE"})
    /\ \E r \in Replies(ctl) : Returned(r, BucketDELETEReply(ctl, r))

PostBucket ==
    /\ Dispatched("Bucket", {"POST"})
    /\ Started(BucketPOST(env, Handler))

GetObject ==
    /\ Dispatched("Object", {"GET", "HEAD", "GETorHEAD"})
    /\ Started(ObjectGETorHEAD(env, Handler))

GetObjectReturns ==
    /\ Calling("Object", {"GET", "HEAD", "GETorHEAD"})
    /\ \E r \in Replies(ctl) : Returned(r, ObjectGETorHEADReply(env, ctl, r))

PutObject ==
    /\ Dispatched("Object", {"PUT"})
    /\ Started(ObjectPUT(env, Handler))

PutObjectReturns ==
    /\ Calling("Object", {"PUT"})
    /\ \E r \in Replies(ctl) : Returned(r, ObjectPUTReply(env, ctl, r))

DeleteObject ==
    /\ Dispatched("Object", {"DELETE"})
    /\ Started(ObjectDELETE(env, Handler))

DeleteObjectReturns ==
    /\ Calling("Object", {"DELETE"})
    /\ \E r \in Replies(ctl) : Returned(r, ObjectDELETEReply(ctl, r))

Next ==
    \/ Accept
    \/ PassThrough
    \/ Reject
    \/ Swallow
    \/ Route
    \/ RejectMethod
    \/ GetService
    \/ GetServiceReturns
    \/ GetBucket
    \/ GetBucketReturns
    \/ PutBucket
    \/ PutBucketReturns
    \/ DeleteBucket
    \/ DeleteBucketReturns
    \/ PostBucket
    \/ GetObject
    \/ GetObjectReturns
    \/ PutObject
    \/ PutObjectReturns
    \/ DeleteObject
    \/ DeleteObjectReturns

Spec == Init /\ [][Next]_vars

-----------------------------------------------------------------------------
(* Claims about the handling of a request.                                 *)

Listings == {"ListBucketResult", "ListVersionsResult"}

\* C1 (as claimed): in every GET Bucket listing response, plain or
\* ?versions, IsTruncated is true if and only if the backend returned exactly
\* max-keys + 1 items and max-keys > 0; with max-keys = 0 it is false
\* whatever the backend returned.
C1_TruncatedIff ==
    (pc = "done" /\ resp.kind = "success" /\ resp.doc.tag \in Listings) =>
        (resp.doc.IsTruncated
            <=> (Len(answer.body) = ctl.max_keys + 1 /\ ctl.max_keys > 0))

\* C2 (as claimed): for GET Bucket with any sub-resource, a backend status of
\* 401 or 403 yields AccessDenied, 404 yields NoSuchBucket, any other status
\* but 200 yields InvalidURI, and a success body is emitted only on 200.
C2_StatusMapping ==
    (pc = "done" /\ ctl.controller = "Bucket" /\ ctl.op = "GET" /\ calls # <<>>) =>
        /\ answer.status \in {401, 403} => resp.code = "AccessDenied"
        /\ answer.status = 404 => resp.code = "NoSuchBucket"
        /\ answer.status \notin {200, 401, 403, 404} => resp.code = "InvalidURI"
        /\ resp.kind = "success" => answer.status = 200

\* The request carries AWS credentials: an Authorization header of the AWS
\* scheme or a presigned query.
Credentialed(e) ==
    \/ startswith(GetHeaderOr(e.headers, "Authorization", ""), "AWS ")
    \/ HasKey(parse_qsl(e.QUERY_STRING), "AWSAccessKeyId")

\* C3 (as claimed): every request with AWS credentials ends with a response
\* that is a success response or an error document of the taxonomy, with
\* content type text/xml and the taxonomy's status; no request and no backend
\* answer makes a controller raise or leaves the request without a response.
C3_AlwaysAResponse ==
    (pc = "done" /\ Credentialed(inbound)) =>
        \/ resp.kind = "success"
        \/ /\ resp.kind = "error"
           /\ resp.code \in DOMAIN error_table
           /\ resp.content_type = "text/xml"
           /\ resp.status = error_table[resp.code]

\* The Authorization header the check of handle_request sees: the request's
\* own or the one made from a presigned query.
SeenAuthorization == GetHeaderOr(Presign(inbound).env.headers, "Authorization", None)

\* The position of the last ':' of a text.
LastColon(s) == CHOOSE i \in 1..Len(s) : At(s, i) = ":" /\ \A j \in (i + 1)..Len(s) : At(s, j) # ":"

\* The backend path names the identity: /v1/<identity> and nothing, or a '/',
\* after it.
PathOf(identity, path) ==
    /\ startswith(path, "/v1/" \o identity)
    /\ Len(path) > Len("/v1/" \o identity) => At(path, Len("/v1/" \o identity) + 1) = "/"

\* C7: when the Authorization check is reached with a header: a header that
\* is not the keyword AWS, one space and one token gives AccessDenied; a
\* token without ':' gives InvalidArgument; otherwise the identity in the
\* backend path, of the controller and of every call, is all of the token
\* left of its last ':'.
C7_Authorization ==
    pc \in {"routed", "backend", "done"} =>
        \A pre \in {Presign(inbound)} :
        \A seen \in {GetHeaderOr(pre.env.headers, "Authorization", None)} :
        (~pre.failed /\ seen # None) =>
            \A words \in {split(seen, " ")} :
            IF Len(words) # 2 \/ words[1] # "AWS"
            THEN pc = "done" /\ resp = get_err_response("AccessDenied") /\ calls = <<>>
            ELSE IF ~HasChar(words[2], ":")
            THEN pc = "done" /\ resp = get_err_response("InvalidArgument") /\ calls = <<>>
            ELSE \A identity \in {SubSeq(words[2], 1, LastColon(words[2]) - 1)} :
                 /\ ctl.controller # "none" =>
                        /\ ctl.account_name = unquote(identity)
                        /\ PathOf(identity, env.PATH_INFO)
                 /\ \A i \in 1..Len(calls) : PathOf(identity, calls[i].PATH_INFO)

\* C7 witness: the backend is called for an identity that has a ':' itself.
C7_Witness ==
    /\ pc = "backend"
    /\ SeenAuthorization = "AWS t:u:s"
    /\ calls # <<>>
    /\ calls[1].PATH_INFO = "/v1/t:u/b/k"

\* C8: a request with no Authorization header and no AWSAccessKeyId
\* parameter goes to the downstream application once, with its method, path,
\* query and headers as they came and no X-Auth-Token; the downstream answer
\* is the response and no controller is built.
C8_PassThroughUntouched ==
    (pc = "done" /\ ~HasHeader(inbound.headers, "Authorization")
         /\ ~HasKey(parse_qsl(inbound.QUERY_STRING), "AWSAccessKeyId")) =>
        /\ calls = <<inbound>>
        /\ env = inbound
        /\ ~HasHeader(calls[1].headers, "X-Auth-Token")
        /\ resp = Downstream(answer)
        /\ ctl = NoCtl

\* C8 witness: a PUT of an object without credentials, with a Date header,
\* has gone downstream and come back with 404.
C8_Witness ==
    /\ pc = "done"
    /\ inbound.REQUEST_METHOD = "PUT"
    /\ inbound.PATH_INFO = "/b/k"
    /\ inbound.headers = << <<"Date", "@1202">> >>
    /\ resp.kind = "downstream"
    /\ resp.status = 404

\* The instant a date text names, in seconds since 1970-01-01 00:00:00 UTC:
\* its fields less its zone.  No date for a text that does not parse or
\* whose fields name no day.
DateOf(text) ==
    LET parts == split(text, " ")
        fields == parsedate(text)
        hours == IF Len(parts) = 2 THEN int(SubSeq(parts[2], 2, 2)) ELSE 0
        zone == IF Len(parts) = 2 /\ At(parts[2], 1) = "-" THEN 0 - hours ELSE hours
    IN  IF fields.ok /\ fields.valid
        THEN [isdate |-> TRUE, instant |-> fields.secs - 3600 * zone]
        ELSE [isdate |-> FALSE, instant |-> 0]

\* A signed request with a Date header that the checks before the date check
\* let through.
SignedWithDate(e) ==
    /\ GetHeaderOr(e.headers, "Authorization", "") = "AWS a:s"
    /\ ~HasKey(parse_qsl(e.QUERY_STRING), "AWSAccessKeyId")
    /\ startswith(e.PATH_INFO, "/")
    /\ HasHeader(e.headers, "Date")

\* C9 (as claimed): for a signed request with a Date header, a date that
\* does not parse or is before 1970-01-01 gives AccessDenied, a date more
\* than 10 minutes from the current UTC time gives RequestTimeTooSkewed, and
\* a date within 10 minutes, 10 minutes exactly included, passes.
C9_DateCheck ==
    (pc \in {"routed", "backend", "done"} /\ SignedWithDate(inbound)) =>
        LET d == DateOf(GetHeader(inbound.headers, "Date")) IN
        IF ~d.isdate \/ d.instant < 0
        THEN pc = "done" /\ resp = get_err_response("AccessDenied")
        ELSE IF d.instant - now > 600 \/ now - d.instant > 600
        THEN pc = "done" /\ resp = get_err_response("RequestTimeTooSkewed")
        ELSE ctl.controller # "none"

\* The controller the claim names for a path: by its bucket and its key.
ClaimedController(path) ==
    LET parts == splitN(path, "/", 2)
        bucket == Len(parts) >= 2 /\ parts[2] # ""
        key == Len(parts) >= 3 /\ parts[3] # ""
    IN  IF bucket /\ key THEN "Object" ELSE IF bucket THEN "Bucket" ELSE "Service"

\* The operations of the S3 API each controller implements.
ClaimedMethods(controller) ==
    CASE controller = "Service" -> {"GET"}
      [] controller = "Bucket" -> {"GET", "PUT", "DELETE", "POST"}
      [] controller = "Object" -> {"GET", "HEAD", "PUT", "DELETE"}

\* C10: a signed request that passes the checks of the entry stage gets the
\* Service controller when its path has no bucket, the Bucket controller when
\* it has a bucket and no key, the Object controller when it has both; the
\* handler run is the one of the request's method, and a method the
\* controller does not implement gives InvalidURI and no backend call.
C10_Dispatch ==
    (pc \in {"routed", "backend", "done"} /\ ctl.controller # "none") =>
        /\ ctl.controller = ClaimedController(inbound.PATH_INFO)
        /\ pc \in {"backend", "done"} =>
               IF inbound.REQUEST_METHOD \in ClaimedMethods(ctl.controller)
               THEN ctl.op = inbound.REQUEST_METHOD
               ELSE /\ pc = "done"
                    /\ ctl.op = ""
                    /\ resp = get_err_response("InvalidURI")
                    /\ calls = <<>>

\* C10 witness: POST on an object has been turned down.
C10_Witness ==
    /\ pc = "done"
    /\ inbound.REQUEST_METHOD = "POST"
    /\ inbound.PATH_INFO = "/b/k/x"
    /\ ctl.controller = "Object"
    /\ resp.code = "InvalidURI"
    /\ calls = <<>>

\* The query parameters of the request as it arrived.
InboundArgs == parse_qsl(inbound.QUERY_STRING)

\* The handler of a PUT Bucket has run past its Content-Length check.
BucketPutRan ==
    /\ pc \in {"backend", "done"}
    /\ ctl.controller = "Bucket"
    /\ ctl.op = "PUT"
    /\ HasHeader(inbound.headers, "Content-Length")
           => isdigit(GetHeader(inbound.headers, "Content-Length"))

\* The container headers claimed for a canned ACL.
ClaimedCannedAcl ==
    [private |-> {<<"X-Container-Write", ".">>, <<"X-Container-Read", ".">>},
     public_read |-> {<<"X-Container-Read", ".r:*,.rlistings">>},
     public_read_write |-> {<<"X-Container-Write", ".r:*">>,
                            <<"X-Container-Read", ".r:*,.rlistings">>}]

C12_PutBucketStatus ==
    (pc = "done" /\ ctl.controller = "Bucket" /\ ctl.op = "PUT" /\ calls # <<>>) =>
        IF answer.status \in {201, 204}
        THEN /\ resp.kind = "success"
             /\ resp.status = 200
             /\ resp.headers =
                    IF HasKey(InboundArgs, "versioning") THEN <<>>
                    ELSE << <<"Location",
                              SubSeq(inbound.PATH_INFO, 2, Len(inbound.PATH_INFO))>> >>
        ELSE resp = get_err_response(
                        IF answer.status = 202 THEN "BucketAlreadyExists"
                        ELSE IF answer.status \in {401, 403} THEN "AccessDenied"
                        ELSE "InvalidURI")

\* C12 witness: a PUT Bucket ?versioning was answered 204 and its response
\* has no Location.
C12_Witness ==
    /\ pc = "done"
    /\ ctl.controller = "Bucket"
    /\ ctl.op = "PUT"
    /\ HasKey(InboundArgs, "versioning")
    /\ answer.status = 204
    /\ resp.status = 200
    /\ ~HasHeader(resp.headers, "Location")

\* The children of a node that have a name.
Children(node, name) == SelectSeq(node.childNodes, LAMBDA n : n.nodeName = name)

\* The text of the first child of a name, "" without one.
ChildText(node, name) ==
    LET c == Children(node, name) IN
    IF c = <<>> \/ c[1].childNodes = <<>> THEN "" ELSE c[1].childNodes[1].nodeValue

Identifiers == {"ID", "URI", "EmailAddress"}

\* The Grant elements of a policy document.
GrantsOf(root) ==
    LET lists == Children(root, "AccessControlList") IN
    IF lists = <<>> THEN <<>> ELSE Children(lists[1], "Grant")

\* The identifier claimed for a Grantee: the ID if present, else the URI,
\* else the EmailAddress.
PreferredGrantee(grantee) ==
    IF Children(grantee, "ID") # <<>> THEN ChildText(grantee, "ID")
    ELSE IF Children(grantee, "URI") # <<>> THEN ChildText(grantee, "URI")
    ELSE ChildText(grantee, "EmailAddress")

\* Every Grantee of a policy carries one identifier.
SingleIdentifiers(root) ==
    \A i \in 1..Len(GrantsOf(root)) :
        \A g \in {Children(GrantsOf(root)[i], "Grantee")} :
            /\ Len(g) = 1
            /\ Cardinality({j \in 1..Len(g[1].childNodes) :
                               g[1].childNodes[j].nodeName \in Identifiers}) = 1

\* A sequence without the repetitions of its members.
RECURSIVE Once(_)
Once(xs) ==
    IF xs = <<>> THEN <<>>
    ELSE LET front == Once(SubSeq(xs, 1, Len(xs) - 1)) IN
         IF InSeq(front, xs[Len(xs)]) THEN front ELSE Append(front, xs[Len(xs)])

\* The grantees claimed for a permission, groups replaced, in the order of
\* the document.
RECURSIVE ClaimedGrantees(_, _)
ClaimedGrantees(grants, permission) ==
    IF grants = <<>> THEN <<>>
    ELSE LET grantee == PreferredGrantee(Children(grants[1], "Grantee")[1])
             replaced == IF grantee = AMZ_ALL_USERS THEN ".r:*"
                         ELSE IF grantee = AMZ_AUTHENTICATED_USERS
                         THEN AUTHENTICATED_USERNAME
                         ELSE grantee
         IN  (IF ChildText(grants[1], "Permission") \in {permission, "FULL_CONTROL"}
              THEN <<replaced>> ELSE <<>>)
                 \o ClaimedGrantees(Tail(grants), permission)

\* The backend header claimed for a permission.
ClaimedAclHeader(controller, permission) ==
    IF controller = "Object" THEN "X-Object-Acl-" \o replace(permission, "_", "-")
    ELSE IF permission = "WRITE" THEN "X-Container-Write"
    ELSE "X-Container-Acl-" \o replace(permission, "_", "-")

\* A PUT ?acl with a policy document has called the backend.
AclPutCalled ==
    /\ pc \in {"backend", "done"}
    /\ ctl.op = "PUT"
    /\ HasKey(InboundArgs, "acl")
    /\ calls # <<>>
    /\ inbound.wsgi_input.kind = "xml"
    /\ inbound.wsgi_input.root.nodeName = "AccessControlPolicy"

\* The ACL headers of the backend call are the claimed ones.
AclHeadersAsClaimed ==
    \A permission \in {"READ", "WRITE", "READ_ACP", "WRITE_ACP"} :
        /\ HasHeader(calls[1].headers, ClaimedAclHeader(ctl.controller, permission))
        /\ GetHeader(calls[1].headers, ClaimedAclHeader(ctl.controller, permission))
              = join(",", Once(ClaimedGrantees(GrantsOf(inbound.wsgi_input.root),
                                               permission)))

\* C13: an AccessControlPolicy body is translated to backend headers: a
\* FULL_CONTROL grant gives its grantee READ, WRITE, READ_ACP and WRITE_ACP;
\* the header is X-Container-Acl-<PERMISSION> (X-Container-WRITE for WRITE)
\* for a container and X-Object-Acl-<PERMISSION> for an object; AllUsers
\* becomes .r:* and AuthenticatedUsers the configured name; each value is the
\* comma-joined grantees of the permission, none twice; and the method sent
\* to the backend is POST.
C13_AclHeaders ==
    (AclPutCalled /\ SingleIdentifiers(inbound.wsgi_input.root)) =>
        /\ calls[1].REQUEST_METHOD = "POST"
        /\ AclHeadersAsClaimed

\* C13 witness: the policy with repeated grantees and both groups has been
\* sent for a container.
C13_Witness ==
    /\ AclPutCalled
    /\ ctl.controller = "Bucket"
    /\ inbound.wsgi_input = XmlBody(AclPolicyRepeated)
    /\ GetHeader(calls[1].headers, "X-Container-Acl-Read-Acp") = ".r:*,c@x"
    /\ GetHeader(calls[1].headers, "X-Container-Write")
          = AUTHENTICATED_USERNAME \o ",c@x"

\* C14 (as claimed): when a Grantee carries more than one of ID, URI and
\* EmailAddress, the grant goes to the ID if present, else to the URI, else
\* to the EmailAddress, whatever the order of these elements.
C14_GranteePreference ==
    (AclPutCalled /\ ~SingleIdentifiers(inbound.wsgi_input.root)) =>
        AclHeadersAsClaimed

\* An object GET or HEAD without ?acl has got a success status from the
\* backend.
ObjectRead ==
    /\ pc = "done"
    /\ ctl.controller = "Object"
    /\ inbound.REQUEST_METHOD \in {"GET", "HEAD"}
    /\ ~HasKey(InboundArgs, "acl")
    /\ calls # <<>>
    /\ 200 <= answer.status
    /\ answer.status <= 299

\* The response header claimed for a backend header, <<>> for a header that
\* is not handed on.
ClaimedResponseHeader(header) ==
    IF startswith(lower(header[1]), "x-object-meta-")
    THEN <<"x-amz-meta-" \o SubSeq(header[1], Len("x-object-meta-") + 1, Len(header[1])),
           header[2]>>
    ELSE IF lower(header[1]) \in {"content-length", "content-type", "content-range",
                                  "content-encoding", "etag", "last-modified"}
    THEN header
    ELSE <<>>

\* C16: on a successful object GET or HEAD (not ?acl) the response headers
\* are exactly one x-amz-meta-X for each x-object-meta-X of the backend plus
\* those of content-length, content-type, content-range, content-encoding,
\* etag and last-modified that the backend returned; no other backend header
\* reaches the client, and for HEAD the body is discarded.
C16_ObjectHeaders ==
    ObjectRead =>
        /\ resp.kind = "success"
        /\ {resp.headers[i] : i \in 1..Len(resp.headers)}
              = {ClaimedResponseHeader(answer.headers[j]) :
                    j \in 1..Len(answer.headers)} \ {<<>>}
        /\ Len(resp.headers)
              = Cardinality({j \in 1..Len(answer.headers) :
                                ClaimedResponseHeader(answer.headers[j]) # <<>>})
        /\ inbound.REQUEST_METHOD = "HEAD" => resp.doc.body = None

\* C16 witness: a HEAD got the backend's metadata, length and etag, and
\* neither its X-Timestamp, X-Auth-Token nor x-object-acl-read.
C16_Witness ==
    /\ ObjectRead
    /\ inbound.REQUEST_METHOD = "HEAD"
    /\ HasHeader(answer.headers, "X-Auth-Token")
    /\ HasHeader(answer.headers, "X-Timestamp")
    /\ resp.headers = << <<"x-amz-meta-Color", "red">>, <<"Content-Length", "3">>,
                         <<"Etag", "e">> >>
    /\ resp.doc.body = None

\* The name of a header after a prefix of its name.
Suffix(name, prefix) == SubSeq(name, Len(prefix) + 1, Len(name))

\* An object PUT has called the backend: every x-amz-meta-K: V of the
\* request is x-object-meta-K: V in the backend request, which has no
\* x-amz-meta-K.
PutRemapped ==
    (/\ pc \in {"backend", "done"}
     /\ ctl.controller = "Object"
     /\ inbound.REQUEST_METHOD = "PUT"
     /\ calls # <<>>) =>
        \A i \in 1..Len(inbound.headers) :
            startswith(lower(inbound.headers[i][1]), "x-amz-meta-") =>
                /\ ~HasHeader(calls[1].headers, inbound.headers[i][1])
                /\ GetHeaderOr(calls[1].headers,
                               "x-object-meta-"
                                   \o Suffix(inbound.headers[i][1], "x-amz-meta-"),
                               None) = inbound.headers[i][2]

\* An object GET has got a success status: every x-object-meta-K: V of the
\* backend's answer is x-amz-meta-K: V in the response.
GetRemapped ==
    (/\ pc = "done"
     /\ ctl.controller = "Object"
     /\ inbound.REQUEST_METHOD = "GET"
     /\ calls # <<>>
     /\ 200 <= answer.status
     /\ answer.status <= 299) =>
        \A j \in 1..Len(answer.headers) :
            startswith(lower(answer.headers[j][1]), "x-object-meta-") =>
                GetHeaderOr(resp.headers,
                            "x-amz-meta-"
                                \o Suffix(answer.headers[j][1], "x-object-meta-"),
                            None) = answer.headers[j][2]

BackendArgs == parse_qsl(calls[1].QUERY_STRING)

\* C18 (as claimed): for an object GET or HEAD with ?acl the backend request
\* is a HEAD whose query has the parameter acl and a successful response is
\* the AccessControlPolicy document; with ?versionId=V the backend query has
\* the parameter versionId with the value V; both also when acl and
\* versionId come together; every other parameter is dropped.
C18_ObjectQuery ==
    (/\ pc \in {"backend", "done"}
     /\ ctl.controller = "Object"
     /\ inbound.REQUEST_METHOD \in {"GET", "HEAD"}
     /\ calls # <<>>) =>
        /\ HasKey(InboundArgs, "acl") =>
               /\ calls[1].REQUEST_METHOD = "HEAD"
               /\ HasKey(BackendArgs, "acl")
               /\ (pc = "done" /\ 200 <= answer.status /\ answer.status <= 299)
                      => resp.doc.tag = "AccessControlPolicy"
        /\ HasKey(InboundArgs, "versionId") =>
               /\ HasKey(BackendArgs, "versionId")
               /\ GetKey(BackendArgs, "versionId") = GetKey(InboundArgs, "versionId")
        /\ \A i \in 1..Len(BackendArgs) :
               /\ BackendArgs[i][1] \in {"acl", "versionId"}
               /\ HasKey(InboundArgs, BackendArgs[i][1])

\* The request as it arrived names a source to copy from.
CopySource ==
    \/ HasHeader(inbound.headers, "x-amz-copy-source")
    \/ HasHeader(inbound.headers, "X-Copy-From")

\* C19: for object PUT the only backend status taken as success is 202 in
\* ?acl mode and 201 otherwise; any other status gives AccessDenied for 401
\* and 403, NoSuchBucket for 404, InvalidDigest for 422 and InvalidURI
\* otherwise; on success the response is 200, with a CopyObjectResult body
\* exactly when the request was a non-ACL PUT with a copy source and with
\* the backend's ETag exactly when it was a non-ACL PUT without one.
C19_PutObjectStatus ==
    (/\ pc = "done"
     /\ ctl.controller = "Object"
     /\ inbound.REQUEST_METHOD = "PUT"
     /\ calls # <<>>) =>
        IF answer.status = (IF HasKey(InboundArgs, "acl") THEN 202 ELSE 201)
        THEN /\ resp.kind = "success"
             /\ resp.status = 200
             /\ (resp.doc.tag = "CopyObjectResult")
                    <=> (~HasKey(InboundArgs, "acl") /\ CopySource)
             /\ resp.doc.tag = "CopyObjectResult"
                    => resp.doc.ETag = GetHeaderOr(answer.headers, "etag", None)
             /\ GetHeaderOr(resp.headers, "ETag", None)
                    = IF ~HasKey(InboundArgs, "acl") /\ ~CopySource
                      THEN GetHeaderOr(answer.headers, "etag", None)
                      ELSE None
        ELSE resp = get_err_response(
                        IF answer.status \in {401, 403} THEN "AccessDenied"
                        ELSE IF answer.status = 404 THEN "NoSuchBucket"
                        ELSE IF answer.status = 422 THEN "InvalidDigest"
                        ELSE "InvalidURI")

\* C19 witness: a PUT ?acl of an object was answered 201 and turned into
\* InvalidURI.
C19_Witness ==
    /\ pc = "done"
    /\ ctl.controller = "Object"
    /\ inbound.REQUEST_METHOD = "PUT"
    /\ HasKey(InboundArgs, "acl")
    /\ calls # <<>>
    /\ answer.status = 201
    /\ resp = get_err_response("InvalidURI")

\* The request as it arrived fails a controller's own validation: a
\* max-keys that is no number, a bad Content-Length, an unknown or
\* unsupported canned ACL, a malformed ACL body, an illegal versioning body,
\* a bad Content-MD5, or a POST on a bucket.
FailsValidation(args) ==
    \/ /\ ctl.controller = "Bucket"
       /\ inbound.REQUEST_METHOD = "GET"
       /\ HasKey(args, "max-keys")
       /\ ~isdigit(GetKey(args, "max-keys"))
    \/ /\ ctl.controller = "Bucket"
       /\ inbound.REQUEST_METHOD = "PUT"
       /\ \/ /\ HasHeader(inbound.headers, "Content-Length")
             /\ ~isdigit(GetHeader(inbound.headers, "Content-Length"))
          \/ /\ ~HasKey(args, "acl")
             /\ ~HasKey(args, "versioning")
             /\ HasHeader(inbound.headers, "x-amz-acl")
             /\ GetHeader(inbound.headers, "x-amz-acl")
                   \notin {"private", "public-read", "public-read-write"}
          \/ /\ HasKey(args, "versioning")
             /\ \/ inbound.wsgi_input.kind = "absent"
                \/ /\ ~Contains(read(inbound.wsgi_input), "Enabled")
                   /\ ~Contains(read(inbound.wsgi_input), "Suspended")
    \/ /\ ctl.controller \in {"Bucket", "Object"}
       /\ inbound.REQUEST_METHOD = "PUT"
       /\ HasKey(args, "acl")
       /\ inbound.wsgi_input.kind # "xml"
    \/ /\ ctl.controller = "Object"
       /\ inbound.REQUEST_METHOD = "PUT"
       /\ ~HasKey(args, "acl")
       /\ HasHeader(inbound.headers, "Content-MD5")
       /\ GetHeader(inbound.headers, "Content-MD5") # "1B2M2Y8AsgTpgAmY7PhCfg=="
    \/ /\ ctl.controller = "Bucket"
       /\ inbound.REQUEST_METHOD = "POST"

\* A backend path /v1/<account>, /v1/<account>/<container> or
\* /v1/<account>/<container>/<object>, by the controller that wrote it.
BackendPath(path) ==
    LET segs == split(path, "/") IN
    /\ Len(segs) >= 3
    /\ segs[1] = ""
    /\ segs[2] = "v1"
    /\ \A i \in 3..Min(Len(segs), 5) : segs[i] # ""
    /\ ctl.controller = "Service" => Len(segs) = 3
    /\ ctl.controller = "Bucket" => Len(segs) = 4
    /\ ctl.controller = "Object" => Len(segs) >= 5

\* C20: per signed request the backend is called at most once, after every
\* rewrite of method, path, query and headers and before any shaping of the
\* response, with X-Auth-Token set and a path /v1/<account>[/<container>
\* [/<object>]]; it is not called when the entry stage turns the request
\* down (credentials, path, clock skew, unknown method) nor when a
\* controller's own validation does.
C20_OneBackendCall ==
    Credentialed(inbound) =>
        /\ Len(calls) <= 1
        /\ calls # <<>> =>
               /\ ctl.op # ""
               /\ calls[1] = env
               /\ HasHeader(calls[1].headers, "X-Auth-Token")
               /\ BackendPath(calls[1].PATH_INFO)
               /\ pc = "backend" => (resp = Pending /\ answer = NoReply)
        /\ (pc = "done" /\ ctl.op = "") => (calls = <<>> /\ resp.kind # "success")
        /\ (pc \in {"backend", "done"} /\ ctl.op # ""
                /\ \E args \in {InboundArgs} : FailsValidation(args)) =>
               /\ calls = <<>>
               /\ pc = "done"
               /\ resp.kind = "error"

\* C20 witness: a PUT ?acl of an object is at the backend as a POST with the
\* ACL headers, the token and the backend path, and no response yet.
C20_Witness ==
    /\ pc = "backend"
    /\ Credentialed(inbound)
    /\ inbound.REQUEST_METHOD = "PUT"
    /\ inbound.PATH_INFO = "/b/k"
    /\ Len(calls) = 1
    /\ calls[1].REQUEST_METHOD = "POST"
    /\ calls[1].QUERY_STRING = "acl"
    /\ calls[1].PATH_INFO = "/v1/a/b/k"
    /\ HasHeader(calls[1].headers, "X-Auth-Token")
    /\ HasHeader(calls[1].headers, "X-Object-Acl-Read")
    /\ resp = Pending

\* The checks of the entry stage in the order of the claim, for a request
\* with query parameters args, seen with the Authorization header
\* authorization and the Date header date (None without one) at the clock
\* reading t: whether the request fails the check.
EntryChecks(request, args, authorization, date, t) ==
    LET words == IF authorization = None THEN <<>> ELSE split(authorization, " ")
        token == IF Len(words) >= 2 THEN words[2] ELSE ""
        d == IF date = None THEN [isdate |-> TRUE, instant |-> t] ELSE DateOf(date)
        splittable == request.PATH_INFO = "" \/ startswith(request.PATH_INFO, "/")
    IN  << /\ HasKey(args, "AWSAccessKeyId")
           /\ \/ ~HasKey(args, "Signature")
              \/ ~HasKey(args, "Expires"),
           Len(words) # 2 \/ words[1] # "AWS",
           ~HasChar(token, ":"),
           ~splittable,
           ~d.isdate \/ d.instant < 0,
           d.isdate /\ d.instant >= 0
               /\ (d.instant - t > 600 \/ t - d.instant > 600),
           /\ splittable
           /\ request.REQUEST_METHOD
                  \notin ClaimedMethods(ClaimedController(request.PATH_INFO)) >>

\* The error each of the checks gives.
EntryErrors ==
    <<"InvalidArgument", "AccessDenied", "InvalidArgument", "InvalidURI",
      "AccessDenied", "RequestTimeTooSkewed", "InvalidURI">>

\* The checks of a list that the request fails, by their place in the order.
Failing(checks) == {i \in 1..Len(checks) : checks[i]}

\* The first of them.
FirstFailing(failing) == CHOOSE i \in failing : \A j \in failing : i <= j

\* The Authorization header the entry stage sees of a request with query
\* parameters args: the one made from a presigned query, else the request's
\* own; None without one.
Authorization(request, args) ==
    IF HasKey(args, "AWSAccessKeyId") /\ HasKey(args, "Expires")
           /\ HasKey(args, "Signature")
    THEN "AWS " \o GetKey(args, "AWSAccessKeyId") \o ":" \o GetKey(args, "Signature")
    ELSE GetHeaderOr(request.headers, "Authorization", None)

\* The Date header it sees: the Expires of a presigned query, else the
\* request's own; None without one.
Date(request, args) ==
    IF HasKey(args, "AWSAccessKeyId") /\ HasKey(args, "Expires")
    THEN GetKey(args, "Expires")
    ELSE GetHeaderOr(request.headers, "Date", None)

\* The request is one the entry stage checks: it has an Authorization header
\* or a presigned query.  Its date, if any, is in GMT and names a day of the
\* calendar, or does not parse.
EntryChecked(request, args) ==
    /\ \/ HasHeader(request.headers, "Authorization")
       \/ HasKey(args, "AWSAccessKeyId")
    /\ \A date \in {Date(request, args)} : date # None => ~HasChar(date, " ")

\* The checks the request fails as it arrived, when the entry stage checks it.
InboundFailing ==
    {failing \in {Failing(EntryChecks(inbound, args, Authorization(inbound, args),
                                      Date(inbound, args), now)) :
                     args \in {a \in {InboundArgs} : EntryChecked(inbound, a)}} :
        failing # {}}

\* C21: a request that fails one or more of the checks of the entry stage
\* is answered with the error of the first check it fails, in the order:
\* presigned query without Signature or Expires (InvalidArgument),
\* Authorization that is not 'AWS <token>' (AccessDenied), token without ':'
\* (InvalidArgument), unsplittable path (InvalidURI), unparseable or pre-epoch
\* Date (AccessDenied), skewed Date (RequestTimeTooSkewed), method the
\* controller does not implement (InvalidURI); no later check changes the
\* answer and the request does not reach the backend.  (A request that is at
\* the backend fails no check, so the answers that follow a backend call
\* are those of requests that fail none.)
C21_FirstFailingCheck ==
    (pc \in {"routed", "backend"} \/ (pc = "done" /\ calls = <<>>)) =>
        \A failing \in InboundFailing :
            /\ pc = "routed" => failing = {7}
            /\ pc # "backend"
            /\ pc = "done" =>
                   resp = get_err_response(EntryErrors[FirstFailing(failing)])

\* C21 witness: an OPTIONS request with an unsplittable path and a skewed
\* Date has been answered InvalidURI, the error of the path.
C21_Witness ==
    /\ pc = "done"
    /\ inbound.PATH_INFO = "b/k"
    /\ inbound.REQUEST_METHOD = "OPTIONS"
    /\ resp = get_err_response("InvalidURI")
    /\ calls = <<>>
    /\ InboundFailing = {{4, 6}}

\* A plain GET Bucket listing has been answered: status 200 from the
\* backend, a ListBucketResult as the response, and no sub-resource and no
\* ?versions among args, the query parameters of the request.
PlainListing(args) ==
    /\ pc = "done"
    /\ ctl.controller = "Bucket"
    /\ ctl.op = "GET"
    /\ calls # <<>>
    /\ answer.status = 200
    /\ resp.kind = "success"
    /\ resp.doc.tag = "ListBucketResult"
    /\ \A sub \in {"acl", "versions", "location", "versioning", "logging"} :
           ~HasKey(args, sub)

\* max-keys of the request: min(requested, 1000), 1000 when it has none.
ClaimedMaxKeys(args) ==
    IF HasKey(args, "max-keys")
    THEN Min(int(GetKey(args, "max-keys")), 1000) ELSE 1000

\* The places of a sequence that satisfy a test.
Places(xs, Test(_)) == {k \in 1..Len(xs) : Test(xs[k])}

IsSubdir(item) == Has(item, "subdir")
IsObject(item) == ~Has(item, "subdir")
IsContents(entry) == entry.tag = "Contents"
IsCommonPrefixes(entry) == entry.tag = "CommonPrefixes"

\* One Contents entry per object and one CommonPrefixes entry per subdir of
\* the backend's items, and nothing else; MaxKeys is max_keys.
OneEntryPerItem(max_keys) ==
    /\ Len(resp.doc.entries) = Len(answer.body)
    /\ Cardinality(Places(resp.doc.entries, IsContents))
           = Cardinality(Places(answer.body, IsObject))
    /\ Cardinality(Places(resp.doc.entries, IsCommonPrefixes))
           = Cardinality(Places(answer.body, IsSubdir))
    /\ resp.doc.MaxKeys = max_keys

\* The max-keys of the plain listing that has been answered, if one has.
ListedMaxKeys ==
    IF pc = "done" /\ resp.kind = "success"
    THEN {ClaimedMaxKeys(args) : args \in {a \in {InboundArgs} : PlainListing(a)}}
    ELSE {}

\* C22 (as claimed): a plain GET Bucket listing answered 200 has one Contents
\* or CommonPrefixes entry for every item the backend returned; whenever the
\* backend returned max-keys + 1 items the ListBucketResult says MaxKeys =
\* max-keys and IsTruncated = true and has max-keys + 1 entries.
C22_EveryItemListedAll ==
    \A max_keys \in ListedMaxKeys :
        /\ OneEntryPerItem(max_keys)
        /\ Len(answer.body) = max_keys + 1 =>
               /\ resp.doc.IsTruncated
               /\ Len(resp.doc.entries) = max_keys + 1

\* C22: a plain GET Bucket listing answered 200 has one Contents or
\* CommonPrefixes entry for every item the backend returned; when max-keys > 0
\* and the backend returned max-keys + 1 items the ListBucketResult says
\* MaxKeys = max-keys and IsTruncated = true and has max-keys + 1 entries;
\* with max-keys = 0 it has the one item returned and IsTruncated = false.
C22_EveryItemListed ==
    \A max_keys \in ListedMaxKeys :
        /\ OneEntryPerItem(max_keys)
        /\ (max_keys > 0 /\ Len(answer.body) = max_keys + 1) =>
               /\ resp.doc.IsTruncated
               /\ Len(resp.doc.entries) = max_keys + 1
        /\ max_keys = 0 => ~resp.doc.IsTruncated

\* C22 witness: with max-keys=1 the backend returned an object and a subdir,
\* and the ListBucketResult has both, MaxKeys 1 and IsTruncated true.
C22_Witness ==
    /\ ListedMaxKeys = {1}
    /\ Len(answer.body) = 2
    /\ IsObject(answer.body[1])
    /\ IsSubdir(answer.body[2])
    /\ Len(resp.doc.entries) = 2
    /\ resp.doc.MaxKeys = 1
    /\ resp.doc.IsTruncated

\* The handler of a PUT Bucket ?acl has run.
BucketAclPut ==
    /\ pc \in {"backend", "done"}
    /\ ctl.controller = "Bucket"
    /\ ctl.op = "PUT"
    /\ HasKey(InboundArgs, "acl")

\* The body of the request is there and parse_access_control_policy reads it
\* without raising.
ParsesSuccessfully ==
    /\ inbound.wsgi_input.kind # "absent"
    /\ ~parse_access_control_policy(inbound.wsgi_input).raised

\* The Grant elements of the body, none when it is no AccessControlPolicy.
BodyGrants ==
    IF inbound.wsgi_input.root.nodeName = "AccessControlPolicy"
    THEN GrantsOf(inbound.wsgi_input.root) ELSE <<>>

\* A grant of the body names the permission.
Named(permission) ==
    \E i \in 1..Len(BodyGrants) :
        ChildText(BodyGrants[i], "Permission") \in {permission, "FULL_CONTROL"}

FiveContainerHeaders ==
    {"X-Container-Read", "X-Container-Acl-Read", "X-Container-Write",
     "X-Container-Acl-Read-Acp", "X-Container-Acl-Write-Acp"}

\* The request has gone to the backend with the five container ACL headers:
\* X-Container-Read empty, each of the others empty when no grant names its
\* permission and else the comma-joined grantees of the permission.
FiveHeadersSent ==
    /\ Len(calls) = 1
    /\ \A h \in FiveContainerHeaders : HasHeader(calls[1].headers, h)
    /\ GetHeader(calls[1].headers, "X-Container-Read") = ""
    /\ \A permission \in {"READ", "WRITE", "READ_ACP", "WRITE_ACP"} :
           \E value \in {GetHeader(calls[1].headers,
                                   ClaimedAclHeader("Bucket", permission))} :
               /\ value = "" <=> ~Named(permission)
               /\ SingleIdentifiers(inbound.wsgi_input.root) =>
                      value = join(",", Once(ClaimedGrantees(BodyGrants, permission)))

\* The request is answered MalformedACLError, has not gone to the backend,
\* and its method, its query and its headers, but for the token of the
\* entry stage, are as they came.
MalformedUnchanged ==
    /\ pc = "done"
    /\ resp = get_err_response("MalformedACLError")
    /\ calls = <<>>
    /\ env.REQUEST_METHOD = inbound.REQUEST_METHOD
    /\ env.QUERY_STRING = inbound.QUERY_STRING
    /\ env.headers = SetHeader(inbound.headers, "X-Auth-Token",
                               GetHeaderOr(env.headers, "X-Auth-Token", ""))

\* C23 (as claimed): every PUT Bucket ?acl whose body parses sends the five
\* container ACL headers to the backend, overwritten as above; every PUT
\* Bucket ?acl whose body is missing or malformed is answered
\* MalformedACLError with no header, method or query changed.
C23_AclFrameAll ==
    BucketAclPut =>
        IF ParsesSuccessfully THEN FiveHeadersSent ELSE MalformedUnchanged

\* C23: a PUT Bucket ?acl that passes the Content-Length check, is not also
\* a ?versioning request and has a body that parses sends the five container
\* ACL headers to the backend, each overwritten with the comma-joined
\* grantees of its permission or with the empty string, X-Container-Read
\* always with the empty string; one that is also a ?versioning request is
\* answered IllegalVersioningConfigurationException and not sent; one whose
\* body is missing or malformed is answered MalformedACLError with no
\* header, method or query changed.
C23_AclFrame ==
    (BucketAclPut /\ BucketPutRan) =>
        IF ~ParsesSuccessfully THEN MalformedUnchanged
        ELSE IF HasKey(InboundArgs, "versioning")
        THEN /\ pc = "done"
             /\ resp = get_err_response("IllegalVersioningConfigurationException")
             /\ calls = <<>>
        ELSE FiveHeadersSent

\* C23 witness: a PUT Bucket ?acl that came with X-Container-Read and
\* X-Container-Acl-Read of its own is at the backend with the first emptied
\* and the second holding the grantees of READ.
C23_Witness ==
    /\ BucketAclPut
    /\ pc = "backend"
    /\ GetHeaderOr(inbound.headers, "X-Container-Read", "") = "old"
    /\ inbound.wsgi_input = XmlBody(AclPolicy)
    /\ Len(calls) = 1
    /\ GetHeader(calls[1].headers, "X-Container-Read") = ""
    /\ GetHeader(calls[1].headers, "X-Container-Acl-Read") = "alice,.r:*"
    /\ GetHeader(calls[1].headers, "X-Container-Acl-Write-Acp") = "alice"

-----------------------------------------------------------------------------
(* Canonicalization on its own: a request is canonicalized, then its       *)
(* headers are reordered and their names re-cased, and it is canonicalized *)
(* again.                                                                  *)

MaxHeaders == 2

HeaderPool ==
    << <<"X-Amz-Meta-B", "v">>, <<"X-Amz-Date", "d1">>, <<"X-Amz-Acl", "private">>,
       <<"Date", "d0">>, <<"Content-MD5", "m">> >>

\* The sub-sequences of the pool of at most MaxHeaders headers.
RECURSIVE SubSeqs(_)
SubSeqs(pool) ==
    IF pool = <<>> THEN {<<>>}
    ELSE LET rest == SubSeqs(Tail(pool)) IN
         rest \cup {<<pool[1]>> \o r : r \in {q \in rest : Len(q) < MaxHeaders}}

CanonResources ==
    { <<"GET", "/", "">>, <<"GET", "/b", "versions&max-keys=1&acl">>,
      <<"PUT", "/b/k/x", "versionId=3&acl">>, <<"GET", "/b/k", "torrent&versionId=">> }

CanonRequests ==
    {Request(r[1], r[2], r[3], h, NoBody) :
        r \in CanonResources, h \in SubSeqs(HeaderPool)}

InitCanon ==
    /\ pc = "new"
    /\ inbound \in CanonRequests
    /\ env = inbound
    /\ now = 0
    /\ ctl = NoCtl
    /\ calls = <<>>
    /\ answer = NoReply
    /\ resp = Pending
    /\ canon = NoCanon
    /\ parsed = NoAcp

\* The request is canonicalized as it arrived.
Canonicalize ==
    /\ pc = "new"
    /\ canon' = [first |-> canonical_string(env), cur |-> canonical_string(env)]
    /\ pc' = "canon"
    /\ UNCHANGED <<inbound, env, now, ctl, calls, resp, answer, parsed>>

Swap(s, i) ==
    [j \in 1..Len(s) |-> IF j = i THEN s[i + 1] ELSE IF j = i + 1 THEN s[i] ELSE s[j]]

\* The header map hands out its headers in another order.
SwapHeaders ==
    /\ pc = "canon"
    /\ \E i \in 1..(Len(env.headers) - 1) :
           /\ env' = [env EXCEPT !.headers = Swap(@, i)]
           /\ canon' = [canon EXCEPT !.cur = canonical_string(env')]
    /\ UNCHANGED <<pc, inbound, now, ctl, calls, resp, answer, parsed>>

\* A header name arrives in another letter case.
RecaseHeader ==
    /\ pc = "canon"
    /\ \E i \in 1..Len(env.headers) :
       \E name \in {lower(env.headers[i][1]), upper(env.headers[i][1])} :
           /\ name # env.headers[i][1]
           /\ env' = [env EXCEPT !.headers[i] = <<name, @[2]>>]
           /\ canon' = [canon EXCEPT !.cur = canonical_string(env')]
    /\ UNCHANGED <<pc, inbound, now, ctl, calls, resp, answer, parsed>>

NextCanon == Canonicalize \/ SwapHeaders \/ RecaseHeader

SpecCanon == InitCanon /\ [][NextCanon]_vars

-----------------------------------------------------------------------------
(* Claims about the canonical string.                                      *)

\* The date field of the claim: empty with an x-amz-date header, else the
\* Date header, empty when there is none.
DateField(e) ==
    IF HasHeader(e.headers, "x-amz-date") THEN ""
    ELSE GetHeaderOr(e.headers, "Date", "")

\* C4 (as claimed): the canonical string of every request begins with the
\* four newline-terminated fields METHOD, Content-MD5 or empty, Content-Type
\* or empty, and the date field, also when the request has neither an
\* x-amz-date nor a Date header.
C4_FourFields ==
    pc = "canon" =>
        startswith(canon.cur,
                   env.REQUEST_METHOD \o "\n"
                       \o GetHeaderOr(env.headers, "Content-MD5", "") \o "\n"
                       \o GetHeaderOr(env.headers, "Content-Type", "") \o "\n"
                       \o DateField(env) \o "\n")

\* What follows the first '?' of a text ('' when there is none).
AfterQuestionMark(s) == IF HasChar(s, "?") THEN splitN(s, "?", 1)[2] ELSE ""

\* C5 (as claimed): the parameters after '?' in the canonical resource are
\* the request's sub-resource parameters, as key or key=value, joined by
\* '&', in lexicographic key order whatever their order in the query string.
C5_SortedSubResources ==
    pc = "canon" =>
        AfterQuestionMark(canon.cur)
            = join("&", sorted(CanonParams(parse_qsl(env.QUERY_STRING))))

\* The lines of a canonical string that are x-amz-* header lines.
AmzLinesOf(s) == SelectSeq(split(s, "\n"), LAMBDA l : startswith(l, "x-amz-"))

\* C6: re-casing header names and reordering the headers leaves the
\* canonical string as it was, and its x-amz-* lines are lowercased, in
\* strictly ascending key order and one per x-amz-* header of the request.
C6_CaseOrderStable ==
    pc = "canon" =>
        /\ canon.cur = canon.first
        /\ LET ls == AmzLinesOf(canon.cur) IN
           /\ Len(ls) = Len(AmzKeys(env.headers))
           /\ \A i \in 1..Len(ls) :
                  ls[i] = lower(env.headers[CHOOSE k \in 1..Len(env.headers) :
                                    lower(env.headers[k][1]) = splitN(ls[i], ":", 1)[1]][1])
                              \o ":" \o GetHeader(env.headers, splitN(ls[i], ":", 1)[1])
           /\ \A i \in 1..(Len(ls) - 1) :
                  StrLess(splitN(ls[i], ":", 1)[1], splitN(ls[i + 1], ":", 1)[1])

\* C6 witness: two x-amz-* headers supplied in descending order, the first
\* one in upper case, after the headers have been reordered or re-cased.
C6_Witness ==
    /\ pc = "canon"
    /\ Len(AmzKeys(env.headers)) = 2
    /\ Len(env.headers) = 2
    /\ StrLess(lower(env.headers[2][1]), lower(env.headers[1][1]))
    /\ env.headers[1][1] = upper(env.headers[1][1])
    /\ canon.cur = canon.first

-----------------------------------------------------------------------------
(* The ACL document on its own: get_s3_acl writes the AccessControlPolicy  *)
(* document of a set of backend ACL headers and                            *)
(* parse_access_control_policy reads the document back.                    *)

\* expat on the text written between two tags: a '<', or a '&' that starts
\* none of &amp; &lt; &gt;, is not well-formed.
RECURSIVE WellFormedText(_)
WellFormedText(s) ==
    IF s = "" THEN TRUE
    ELSE IF startswith(s, "&amp;") THEN WellFormedText(SubSeq(s, 6, Len(s)))
    ELSE IF startswith(s, "&lt;") \/ startswith(s, "&gt;")
    THEN WellFormedText(SubSeq(s, 5, Len(s)))
    ELSE SubSeq(s, 1, 1) \notin {"&", "<"} /\ WellFormedText(SubSeq(s, 2, Len(s)))

\* The character data of a well-formed text.
RECURSIVE CharacterData(_)
CharacterData(s) ==
    IF s = "" THEN ""
    ELSE IF startswith(s, "&amp;") THEN "&" \o CharacterData(SubSeq(s, 6, Len(s)))
    ELSE IF startswith(s, "&lt;") THEN "<" \o CharacterData(SubSeq(s, 5, Len(s)))
    ELSE IF startswith(s, "&gt;") THEN ">" \o CharacterData(SubSeq(s, 5, Len(s)))
    ELSE SubSeq(s, 1, 1) \o CharacterData(SubSeq(s, 2, Len(s)))

\* The child nodes of an element written as <X>s</X>: no text node for an
\* empty s.
TextNodes(s) == IF s = "" THEN <<>> ELSE <<Text(CharacterData(s))>>

\* The Grant element amz_group_grant or amz_user_grant wrote.
GrantNode(grant) ==
    Element("Grant",
        <<Element("Grantee",
              IF grant.type = "Group"
              THEN <<Element("URI", TextNodes(grant.grantee))>>
              ELSE <<Element("ID", TextNodes(grant.grantee)),
                     Element("DisplayName", TextNodes(grant.grantee))>>),
          Element("Permission", TextNodes(grant.permission))>>)

\* The document get_s3_acl wrote, lines 306-332.
PolicyNode(doc) ==
    Element("AccessControlPolicy",
        (IF doc.owner = None THEN <<>>
         ELSE <<Element("Owner", <<Element("ID", TextNodes(doc.owner)),
                                   Element("DisplayName", TextNodes(doc.owner))>>)>>)
            \o <<Element("AccessControlList",
                     [i \in 1..Len(doc.grants) |-> GrantNode(doc.grants[i])])>>)

\* The texts get_s3_acl wrote between tags.
PolicyTexts(doc) ==
    (IF doc.owner = None THEN {} ELSE {doc.owner})
        \cup {doc.grants[i].grantee : i \in 1..Len(doc.grants)}
        \cup {doc.grants[i].permission : i \in 1..Len(doc.grants)}

\* The body of get_s3_acl's response as parseString (line 362) reads it: the
\* tree of the document, or a text that is no XML.
parseString(doc) ==
    IF \A t \in PolicyTexts(doc) : WellFormedText(t)
    THEN XmlBody(PolicyNode(doc))
    ELSE TextBody("<AccessControlPolicy>")

MaxAclHeaders == 2

\* ACL values of the backend: referrers, groups, an entry given twice, an
\* empty entry and a group with an ampersand in its name.
AclValues ==
    {".r:*", ".r:*,bob,bob", ".r:example.com,.rlistings", "a&b", "bob,,al"}

\* The headers of a backend answer: the resource's ACL headers, its owner
\* and a header whose name is not in lower case.
AclHeaderNames(resource) ==
    IF resource = "container"
    THEN {"x-container-read", "x-container-write", "x-container-acl-read",
          "x-container-acl-read-acp", "x-container-acl-write-acp",
          "x-container-owner", "X-Container-Read"}
    ELSE {"x-object-acl-read", "x-object-acl-write", "x-object-acl-read-acp",
          "x-object-acl-write-acp", "x-object-owner"}

AclHeaderSets(resource) ==
    {h \in Arrangements(AclHeaderNames(resource) \X AclValues, MaxAclHeaders) :
        /\ h # <<>>
        /\ \A i, j \in 1..Len(h) : i # j => h[i][1] # h[j][1]}

\* The resource of a controller.
Resource == IF ctl.controller = "Bucket" THEN "container" ELSE "object"

\* The backend has answered a HEAD ?acl with a set of headers.
InitAcl ==
    /\ pc = "headers"
    /\ \E controller \in {"Bucket", "Object"} :
           /\ ctl = [NoCtl EXCEPT !.controller = controller]
           /\ \E h \in AclHeaderSets(IF controller = "Bucket" THEN "container"
                                      ELSE "object") :
                  answer = Reply(200, h, <<>>)
    /\ inbound = Idle
    /\ env = Idle
    /\ now = 0
    /\ calls = <<>>
    /\ resp = Pending
    /\ canon = NoCanon
    /\ parsed = NoAcp

\* get_s3_acl writes the document of the headers.
BuildAcl ==
    /\ pc = "headers"
    /\ resp' = get_s3_acl(answer.headers, ACL_HEADERS(Resource), Resource)
    /\ pc' = "document"
    /\ UNCHANGED <<inbound, env, now, ctl, calls, answer, canon, parsed>>

\* The document comes back as the body of a request and
\* parse_access_control_policy reads it.
ParseAcl ==
    /\ pc = "document"
    /\ env' = [env EXCEPT !.wsgi_input = parseString(resp.doc)]
    /\ parsed' = parse_access_control_policy(parseString(resp.doc))
    /\ pc' = "parsed"
    /\ UNCHANGED <<inbound, now, ctl, calls, answer, resp, canon>>

NextAcl == BuildAcl \/ ParseAcl

SpecAcl == InitAcl /\ [][NextAcl]_vars

-----------------------------------------------------------------------------
(* Claims about the ACL document.                                          *)

\* The (grantee, permission) pairs of the users parse_access_control_policy
\* gave.
RECURSIVE ParsedPairs(_)
ParsedPairs(users) ==
    IF users = <<>> THEN <<>>
    ELSE [i \in 1..Len(users[1].permissions) |->
             <<users[1].user, users[1].permissions[i]>>]
             \o ParsedPairs(Tail(users))

\* The pairs the Grant elements of a document express.
XmlPairs(doc) ==
    [i \in 1..Len(doc.grants) |-> <<doc.grants[i].grantee, doc.grants[i].permission>>]

Count(xs, x) == Cardinality({i \in 1..Len(xs) : xs[i] = x})

SameMultiset(xs, ys) ==
    /\ Len(xs) = Len(ys)
    /\ \A i \in 1..Len(xs) : Count(xs, xs[i]) = Count(ys, xs[i])

\* The permission of a recognized ACL header: its suffix.
HeaderPermissions ==
    [READ |-> {"x-container-read", "x-container-acl-read", "x-object-acl-read"},
     WRITE |-> {"x-container-write", "x-object-acl-write"},
     READ_ACP |-> {"x-container-acl-read-acp", "x-object-acl-read-acp"},
     WRITE_ACP |-> {"x-container-acl-write-acp", "x-object-acl-write-acp"}]

\* The number of referrer and group entries of the headers of a permission.
RECURSIVE Entries(_, _)
Entries(headers, permission) ==
    IF headers = <<>> THEN 0
    ELSE (IF headers[1][1] \in HeaderPermissions[permission] /\ headers[1][2] # ""
          THEN Len(split(headers[1][2], ",")) ELSE 0)
             + Entries(Tail(headers), permission)

\* C15 (as claimed): for any set of backend ACL headers, the document
\* get_s3_acl builds is parsed by parse_access_control_policy into exactly
\* the multiset of (grantee, permission) pairs its Grant elements express,
\* one pair per referrer or group entry of each recognized header, with the
\* header's suffix as the permission.
C15_AclRoundTrip ==
    pc = "parsed" =>
        /\ ~parsed.raised
        /\ SameMultiset(ParsedPairs(parsed.acl), XmlPairs(resp.doc))
        /\ \A permission \in DOMAIN HeaderPermissions :
               Cardinality({i \in 1..Len(ParsedPairs(parsed.acl)) :
                               ParsedPairs(parsed.acl)[i][2] = permission})
                 = Entries(answer.headers, permission)

====
